---- MODULE Spec2Model ----
(***************************************************************************)
(* The SEO content generator of seo_content_writer                        *)
(* (src/content_generator.py, class SEOContentGenerator).                 *)
(*                                                                         *)
(* Text.  A Python str is modelled as a sequence of atoms.  An atom is a   *)
(* TLA+ string holding one or more characters.  Every character the code   *)
(* looks for is an atom of its own: the blank " ", the newline "\n", the   *)
(* full stop ".", the hash "#"; a placeholder token such as "{keyword}"    *)
(* is one atom; every other atom is a maximal run of the remaining         *)
(* characters (a word with its commas, colons, asterisks).  A keyword is   *)
(* a sequence of atoms as well (<<"content", " ", "marketing">>).  On such *)
(* sequences str.split, str.count, str.replace, the in operator and        *)
(* re.findall are computed position by position as Python computes them on *)
(* characters; len() is the sum of the atoms' lengths.                     *)
(***************************************************************************)
EXTENDS Integers, Sequences, FiniteSets, TLC

VARIABLES
    source_content,      \* generate_seo_article: the source document handed to it
    seo_settings,        \* generate_seo_article: the configuration handed to it
    returned,            \* generate_seo_article: the value returned, NoValue before the call
    steps,               \* generate_seo_article: the steps the last call entered, in order
    rng,                 \* the state of the random module
    clock,               \* datetime.now(), in ticks; one tick passes per call
    generated_article,   \* st.session_state.generated_article, NoValue while none is stored
    content,             \* analyze_seo_score, optimize_keyword_density: the body handed over
    primary_keyword,     \* analyze_seo_score, optimize_keyword_density: the primary_keyword argument
    secondary_keywords,  \* analyze_seo_score, optimize_keyword_density: the secondary_keywords argument
    report,              \* analyze_seo_score: the value returned, NoValue before the call
    optimized,           \* optimize_keyword_density: the body returned, as .content; NoValue before the call
    reoptimized,         \* optimize_keyword_density: what it returns for the body it returned; NoValue before
    built_sections,      \* generate_seo_article: its article_sections, once generated; NoValue before
    editor_session,      \* st.session_state.editor_session; NoValue while the key is absent
    editor_result,       \* what the last call of a ContentEditor method returned; NoValue before
    auth_session,        \* st.session_state: authenticated, username, login_attempts, last_failed_login
    login_render,        \* the last render of the login page: whether it was refused, checked credentials, logged in
    scores,              \* get_seo_grade: the arguments of two calls
    grades               \* get_seo_grade: the values the two calls returned, NoValue before

vars == <<source_content, seo_settings, returned, steps, rng, clock, generated_article,
          content, primary_keyword, secondary_keywords, report, optimized, reoptimized, built_sections,
          editor_session, editor_result, auth_session, login_render, scores, grades>>
genVars == <<source_content, seo_settings, returned, steps, rng, clock, generated_article>>
scoreVars == <<content, primary_keyword, secondary_keywords, report>>
gradeVars == <<scores, grades>>
densityVars == <<optimized, reoptimized, built_sections>>
editorVars == <<editor_session, editor_result>>
authVars == <<auth_session, login_render>>

\* Python's None / "not called yet".
NoValue == [none |-> TRUE]

(***************************************************************************)
(* str primitives                                                          *)
(***************************************************************************)

\* The characters str.split() and str.strip() treat as whitespace.
IsSpace(a) == a \in {" ", "\n", "\t"}

SetMin(S) == CHOOSE m \in S : \A x \in S : m <= x

RECURSIVE SumLens(_, _)
SumLens(s, lens) ==
    IF lens = {} THEN 0
    ELSE LET l == CHOOSE x \in lens : TRUE
         IN l * Cardinality({i \in 1..Len(s) : Len(s[i]) = l}) + SumLens(s, lens \ {l})

\* len(s): the number of characters.
StrLen(s) == SumLens(s, {Len(s[i]) : i \in 1..Len(s)})

\* A word count that takes every atom, the blanks too, for a word.
NumWordsWithBlanks(s) == Len(s)

\* len(s.split()): a word starts at every non-blank that follows a blank or
\* starts the text.
NumWords(s) ==
    Cardinality({i \in 1..Len(s) : ~IsSpace(s[i]) /\ (i = 1 \/ IsSpace(s[i - 1]))})

MatchAt(s, sub, i) ==
    /\ i + Len(sub) - 1 <= Len(s)
    /\ \A j \in 1..Len(sub) : s[i + j - 1] = sub[j]

Matches(s, sub) == {i \in 1..Len(s) : MatchAt(s, sub, i)}

\* sub in s
Contains(s, sub) == sub = <<>> \/ Matches(s, sub) # {}

RECURSIVE CountFrom(_, _, _)
CountFrom(M, n, p) ==
    LET later == {m \in M : m >= p}
    IN  IF later = {} THEN 0 ELSE 1 + CountFrom(later, n, SetMin(later) + n)

\* Some proper prefix of sub is also a suffix of it: only then can two
\* occurrences of sub overlap.
HasBorder(sub) ==
    \E k \in 1..(Len(sub) - 1) : SubSeq(sub, 1, k) = SubSeq(sub, Len(sub) - k + 1, Len(sub))

\* s.count(sub): the occurrences taken left to right without overlap (every
\* occurrence, when no two can overlap).
StrCount(s, sub) ==
    IF sub = <<>> THEN StrLen(s) + 1
    ELSE IF HasBorder(sub) THEN CountFrom(Matches(s, sub), Len(sub), 1)
    ELSE Cardinality(Matches(s, sub))

\* str.lower() of one atom: the atoms of the model that hold an upper-case
\* letter (any other atom is its own lower case).
LowerMap ==
    "Effective" :> "effective" @@
    "Strategies" :> "strategies" @@
    "Engine" :> "engine" @@
    "Optimization" :> "optimization" @@
    "Enterprise" :> "enterprise" @@
    "Consulting" :> "consulting" @@
    "Services" :> "services" @@
    "For" :> "for" @@
    "Startups" :> "startups" @@
    "Notes" :> "notes" @@
    "Old" :> "old" @@
    "Nothing" :> "nothing" @@
    "**Pro" :> "**pro" @@
    "**Remember:**" :> "**remember:**" @@
    "**Step" :> "**step" @@
    "A" :> "a" @@
    "Achieve" :> "achieve" @@
    "Additionally," :> "additionally," @@
    "Advanced" :> "advanced" @@
    "Advantage" :> "advantage" @@
    "After" :> "after" @@
    "Always" :> "always" @@
    "Analyze" :> "analyze" @@
    "And" :> "and" @@
    "Apply" :> "apply" @@
    "Approach" :> "approach" @@
    "Avoid" :> "avoid" @@
    "Based" :> "based" @@
    "Begin" :> "begin" @@
    "Beginner's" :> "beginner's" @@
    "Benefits" :> "benefits" @@
    "Best" :> "best" @@
    "Better" :> "better" @@
    "Better?" :> "better?" @@
    "Blog" :> "blog" @@
    "Boost" :> "boost" @@
    "Build" :> "build" @@
    "By" :> "by" @@
    "Choose" :> "choose" @@
    "Clear" :> "clear" @@
    "Common" :> "common" @@
    "Compare" :> "compare" @@
    "Competitive" :> "competitive" @@
    "Complete" :> "complete" @@
    "Comprehensive" :> "comprehensive" @@
    "Conclusion" :> "conclusion" @@
    "Consider" :> "consider" @@
    "Content" :> "content" @@
    "Continuous" :> "continuous" @@
    "Create" :> "create" @@
    "Data-driven" :> "data-driven" @@
    "Defined" :> "defined" @@
    "Detailed" :> "detailed" @@
    "Developments" :> "developments" @@
    "Did" :> "did" @@
    "Different" :> "different" @@
    "Discover" :> "discover" @@
    "Download" :> "download" @@
    "Efficiency" :> "efficiency" @@
    "Enhance" :> "enhance" @@
    "Enhanced" :> "enhanced" @@
    "Essential" :> "essential" @@
    "Evaluate" :> "evaluate" @@
    "Everything" :> "everything" @@
    "Expand**" :> "expand**" @@
    "Expert" :> "expert" @@
    "Find" :> "find" @@
    "Focus" :> "focus" @@
    "Follow" :> "follow" @@
    "Future" :> "future" @@
    "Game-Changing" :> "game-changing" @@
    "Get" :> "get" @@
    "Goals" :> "goals" @@
    "Good" :> "good" @@
    "Guide" :> "guide" @@
    "Have" :> "have" @@
    "Here's" :> "here's" @@
    "Honest" :> "honest" @@
    "How" :> "how" @@
    "Implement" :> "implement" @@
    "Implementing" :> "implementing" @@
    "Improve" :> "improve" @@
    "Improved" :> "improved" @@
    "In" :> "in" @@
    "In-Depth" :> "in-depth" @@
    "Increased" :> "increased" @@
    "Innovative" :> "innovative" @@
    "Integrating" :> "integrating" @@
    "Is" :> "is" @@
    "It" :> "it" @@
    "Iterate" :> "iterate" @@
    "Join" :> "join" @@
    "Keep" :> "keep" @@
    "Key" :> "key" @@
    "Know" :> "know" @@
    "Latest" :> "latest" @@
    "Learn" :> "learn" @@
    "Learning" :> "learning" @@
    "Let's" :> "let's" @@
    "Looking" :> "looking" @@
    "Market" :> "market" @@
    "Marketing" :> "marketing" @@
    "Master" :> "master" @@
    "Mastering" :> "mastering" @@
    "Measurable" :> "measurable" @@
    "Measure" :> "measure" @@
    "Methods" :> "methods" @@
    "Metrics" :> "metrics" @@
    "Mistakes" :> "mistakes" @@
    "Monitor" :> "monitor" @@
    "Need" :> "need" @@
    "Now" :> "now" @@
    "On" :> "on" @@
    "Once" :> "once" @@
    "Optimize" :> "optimize" @@
    "Optimize**" :> "optimize**" @@
    "Outcomes" :> "outcomes" @@
    "Over" :> "over" @@
    "Performance" :> "performance" @@
    "Plan" :> "plan" @@
    "Powerful" :> "powerful" @@
    "Practices" :> "practices" @@
    "Practices**" :> "practices**" @@
    "Premium" :> "premium" @@
    "Proper" :> "proper" @@
    "Proven" :> "proven" @@
    "Quality" :> "quality" @@
    "Quantity" :> "quantity" @@
    "ROI" :> "roi" @@
    "Ready" :> "ready" @@
    "Regularly" :> "regularly" @@
    "Remember," :> "remember," @@
    "Results" :> "results" @@
    "Revolutionary" :> "revolutionary" @@
    "Revolutionize" :> "revolutionize" @@
    "Roi" :> "roi" @@
    "SEO" :> "seo" @@
    "Scale" :> "scale" @@
    "Search" :> "search" @@
    "Select" :> "select" @@
    "Seo" :> "seo" @@
    "Share" :> "share" @@
    "Short" :> "short" @@
    "Simple" :> "simple" @@
    "Start" :> "start" @@
    "Stay" :> "stay" @@
    "Staying" :> "staying" @@
    "Step-by-Step" :> "step-by-step" @@
    "Stop" :> "stop" @@
    "Strategic" :> "strategic" @@
    "Strategy" :> "strategy" @@
    "Strategy**" :> "strategy**" @@
    "Supercharge" :> "supercharge" @@
    "Sustainable" :> "sustainable" @@
    "Take" :> "take" @@
    "Test" :> "test" @@
    "The" :> "the" @@
    "This" :> "this" @@
    "Through" :> "through" @@
    "Tip:**" :> "tip:**" @@
    "Tips" :> "tips" @@
    "To" :> "to" @@
    "Too" :> "too" @@
    "Track" :> "track" @@
    "Transform" :> "transform" @@
    "Trends" :> "trends" @@
    "Tricks" :> "tricks" @@
    "Try" :> "try" @@
    "Ultimate" :> "ultimate" @@
    "Unbiased" :> "unbiased" @@
    "Understanding" :> "understanding" @@
    "Updated" :> "updated" @@
    "Ways" :> "ways" @@
    "What" :> "what" @@
    "When" :> "when" @@
    "Whether" :> "whether" @@
    "Which" :> "which" @@
    "Why" :> "why" @@
    "With" :> "with" @@
    "Works" :> "works" @@
    "You" :> "you" @@
    "You'll" :> "you'll" @@
    "Your" :> "your"

LowerAtom(a) == IF a \in DOMAIN LowerMap THEN LowerMap[a] ELSE a

Lower(s) == [i \in 1..Len(s) |-> LowerAtom(s[i])]

(***************************************************************************)
(* SEOContentGenerator.get_seo_grade                                       *)
(***************************************************************************)
\* A grade table whose top threshold is exclusive.
get_seo_grade_exclusive(sc) ==
    IF sc > 90 THEN "A+"
    ELSE IF sc >= 80 THEN "A"
    ELSE IF sc >= 70 THEN "B"
    ELSE IF sc >= 60 THEN "C"
    ELSE IF sc >= 50 THEN "D"
    ELSE "F"

get_seo_grade(sc) ==
    IF sc >= 90 THEN "A+"
    ELSE IF sc >= 80 THEN "A"
    ELSE IF sc >= 70 THEN "B"
    ELSE IF sc >= 60 THEN "C"
    ELSE IF sc >= 50 THEN "D"
    ELSE "F"

(***************************************************************************)
(* SEOContentGenerator.analyze_seo_score                                   *)
(***************************************************************************)
max_score == 100
MinWords == 800
MaxWords == 2000
MaxSentenceLength == 20

H2Marker == <<"#", "#", " ">>

\* The last position of the line that position p lies on.
LineEnd(s, p) ==
    LET nl == {j \in p..Len(s) : s[j] = "\n"}
    IN  IF nl = {} THEN Len(s) ELSE SetMin(nl) - 1

\* re.findall(r'## (.+)', content): scanning left to right, a match starts at
\* a "## " that has at least one character after it on its line and runs to
\* the end of that line, so a later "## " on the line lies inside the match;
\* the group is the text after the marker.
FindHeadings(s) ==
    LET marks == Matches(s, H2Marker)
        starts == {p \in marks :
                     /\ p + 3 <= Len(s)
                     /\ s[p + 3] # "\n"
                     /\ ~\E q \in marks : q < p /\ \A j \in q..p : s[j] # "\n"}
    IN  {SubSeq(s, p + 3, LineEnd(s, p + 3)) : p \in starts}

\* f"{primary_density:.1f}": the density in tenths of a percent, rounded to
\* the nearest tenth (a tie goes to the even tenth here; Python rounds the
\* binary double, which on a tie may fall either way).
FormatTenths(count, total) ==
    LET q == (1000 * count) \div total
        r == (1000 * count) % total
    IN  IF 2 * r < total THEN q
        ELSE IF 2 * r > total THEN q + 1
        ELSE IF q % 2 = 0 THEN q ELSE q + 1

\* The keyword density check: 1.0 <= primary_count / total_words * 100 <= 2.0,
\* kept exact in integers.
density_check(primary_count, total_words) ==
    IF total_words <= 100 * primary_count /\ 100 * primary_count <= 2 * total_words
    THEN [points |-> 20, issues |-> <<>>, recommendations |-> <<>>]
    ELSE IF 100 * primary_count < total_words
    THEN [points |-> 10,
          issues |-> << <<"Primary keyword density is low",
                          FormatTenths(primary_count, total_words)>> >>,
          recommendations |-> <<"Increase primary keyword usage naturally">>]
    ELSE [points |-> 5,
          issues |-> << <<"Primary keyword density is high",
                          FormatTenths(primary_count, total_words)>> >>,
          recommendations |-> <<"Reduce keyword density to avoid over-optimization">>]

\* A content length check whose lower threshold is exclusive.
length_check_exclusive(total_words) ==
    IF MinWords < total_words /\ total_words <= MaxWords
    THEN [points |-> 20, issues |-> <<>>, recommendations |-> <<>>]
    ELSE IF total_words <= MinWords
    THEN [points |-> 10,
          issues |-> << <<"Content is short", total_words>> >>,
          recommendations |-> <<"Consider adding more comprehensive information">>]
    ELSE [points |-> 15, issues |-> <<>>, recommendations |-> <<>>]

\* The content length check.
length_check(total_words) ==
    IF MinWords <= total_words /\ total_words <= MaxWords
    THEN [points |-> 20, issues |-> <<>>, recommendations |-> <<>>]
    ELSE IF total_words < MinWords
    THEN [points |-> 10,
          issues |-> << <<"Content is short", total_words>> >>,
          recommendations |-> <<"Consider adding more comprehensive information">>]
    ELSE [points |-> 15, issues |-> <<>>, recommendations |-> <<>>]

\* A heading structure check that wants more than three headings for the
\* full points.
heading_check_four(h2_count) ==
    IF h2_count > 3 THEN [points |-> 15, issues |-> <<>>, recommendations |-> <<>>]
    ELSE IF h2_count >= 2 THEN [points |-> 10, issues |-> <<>>, recommendations |-> <<>>]
    ELSE [points |-> 0,
          issues |-> << <<"Add more H2 headings for better structure">> >>,
          recommendations |-> <<"Include 3-5 H2 headings for optimal structure">>]

\* The heading structure check.
heading_check(h2_count) ==
    IF h2_count >= 3 THEN [points |-> 15, issues |-> <<>>, recommendations |-> <<>>]
    ELSE IF h2_count >= 2 THEN [points |-> 10, issues |-> <<>>, recommendations |-> <<>>]
    ELSE [points |-> 0,
          issues |-> << <<"Add more H2 headings for better structure">> >>,
          recommendations |-> <<"Include 3-5 H2 headings for optimal structure">>]

\* A keyword in headings check that awards 20 points.
keyword_heading_check_twenty(keyword_in_headings) ==
    IF keyword_in_headings THEN [points |-> 20, issues |-> <<>>, recommendations |-> <<>>]
    ELSE [points |-> 0,
          issues |-> << <<"Primary keyword not found in headings">> >>,
          recommendations |-> <<"Include primary keyword in at least one heading">>]

\* The keyword in headings check.
keyword_heading_check(keyword_in_headings) ==
    IF keyword_in_headings THEN [points |-> 15, issues |-> <<>>, recommendations |-> <<>>]
    ELSE [points |-> 0,
          issues |-> << <<"Primary keyword not found in headings">> >>,
          recommendations |-> <<"Include primary keyword in at least one heading">>]

\* A secondary keywords check that reports the issue without a
\* recommendation.
secondary_check_unpaired(secondary, secondary_found) ==
    IF secondary = <<>> THEN [points |-> 0, issues |-> <<>>, recommendations |-> <<>>]
    ELSE IF secondary_found > 0 THEN [points |-> 10, issues |-> <<>>, recommendations |-> <<>>]
    ELSE [points |-> 0,
          issues |-> << <<"Secondary keywords not found in content">> >>,
          recommendations |-> <<>>]

\* The secondary keywords check.
secondary_check(secondary, secondary_found) ==
    IF secondary = <<>> THEN [points |-> 0, issues |-> <<>>, recommendations |-> <<>>]
    ELSE IF secondary_found > 0 THEN [points |-> 10, issues |-> <<>>, recommendations |-> <<>>]
    ELSE [points |-> 0,
          issues |-> << <<"Secondary keywords not found in content">> >>,
          recommendations |-> <<"Include secondary keywords naturally in content">>]

\* The readability check: total_words / max(periods, 1) <= 20.
readability_check(total_words, periods) ==
    IF total_words <= MaxSentenceLength * (IF periods > 1 THEN periods ELSE 1)
    THEN [points |-> 10, issues |-> <<>>, recommendations |-> <<>>]
    ELSE [points |-> 0,
          issues |-> << <<"Sentences are too long on average">> >>,
          recommendations |-> <<"Use shorter sentences for better readability">>]

analyze_seo_score(body, keyword, secondary) ==
    LET total_words == NumWords(body)
        lowered == Lower(body)
        primary_count == StrCount(lowered, Lower(keyword))
        h2_count == StrCount(body, H2Marker)
        headings == FindHeadings(body)
        keyword_in_headings == \E h \in headings : Contains(Lower(h), Lower(keyword))
        secondary_found ==
            Cardinality({i \in 1..Len(secondary) : Contains(lowered, Lower(secondary[i]))})
        c1 == density_check(primary_count, total_words)
        c2 == length_check(total_words)
        c3 == heading_check(h2_count)
        c4 == keyword_heading_check(keyword_in_headings)
        c5 == secondary_check(secondary, secondary_found)
        c6 == readability_check(total_words, StrCount(body, <<".">>))
        total == c1.points + c2.points + c3.points + c4.points + c5.points + c6.points
        final_score == IF total < max_score THEN total ELSE max_score
    IN  IF total_words = 0
        THEN [score |-> 0, issues |-> << <<"No content to analyze">> >>]
        ELSE [score |-> final_score,
              keyword_density |-> <<100 * primary_count, total_words>>,
              word_count |-> total_words,
              h2_count |-> h2_count,
              issues |-> c1.issues \o c2.issues \o c3.issues \o c4.issues
                         \o c5.issues \o c6.issues,
              recommendations |-> c1.recommendations \o c2.recommendations
                                  \o c3.recommendations \o c4.recommendations
                                  \o c5.recommendations \o c6.recommendations,
              grade |-> get_seo_grade(final_score)]

(***************************************************************************)
(* More str primitives                                                     *)
(***************************************************************************)
\* the first position from i on that holds no whitespace, 0 if there is none
RECURSIVE FirstSolid(_, _)
FirstSolid(s, i) ==
    IF i > Len(s) THEN 0 ELSE IF ~IsSpace(s[i]) THEN i ELSE FirstSolid(s, i + 1)

\* the last position up to i that holds no whitespace, 0 if there is none
RECURSIVE LastSolid(_, _)
LastSolid(s, i) ==
    IF i < 1 THEN 0 ELSE IF ~IsSpace(s[i]) THEN i ELSE LastSolid(s, i - 1)

\* A trim that is left out.
StripLeftOut(s) == s

\* s.strip()
Strip(s) ==
    LET first == FirstSolid(s, 1)
    IN  IF first = 0 THEN <<>> ELSE SubSeq(s, first, LastSolid(s, Len(s)))

\* s[:n]
Take(s, n) == SubSeq(s, 1, IF n < Len(s) THEN n ELSE Len(s))

\* s.replace(ph, val) for a placeholder token ph, which is one atom
RECURSIVE Replace(_, _, _)
Replace(s, ph, val) ==
    IF s = <<>> THEN <<>>
    ELSE (IF Head(s) = ph THEN val ELSE <<Head(s)>>) \o Replace(Tail(s), ph, val)

\* s.split(sep): the pieces between the occurrences of sep, taken left to right
RECURSIVE SplitOn(_, _)
SplitOn(s, sep) ==
    LET M == Matches(s, sep)
    IN  IF M = {} THEN <<s>>
        ELSE LET p == SetMin(M)
             IN  <<SubSeq(s, 1, p - 1)>> \o SplitOn(SubSeq(s, p + Len(sep), Len(s)), sep)

\* sep.join(parts)
RECURSIVE Join(_, _)
Join(parts, sep) ==
    IF parts = <<>> THEN <<>>
    ELSE IF Len(parts) = 1 THEN parts[1]
    ELSE parts[1] \o sep \o Join(Tail(parts), sep)

\* str.title() of one atom: the atoms of the model that str.title() changes
\* (it leaves any other atom as it is).
TitleMap ==
    "search" :> "Search" @@
    "engine" :> "Engine" @@
    "optimization" :> "Optimization" @@
    "enterprise" :> "Enterprise" @@
    "consulting" :> "Consulting" @@
    "services" :> "Services" @@
    "for" :> "For" @@
    "startups" :> "Startups" @@
    "ROI" :> "Roi" @@
    "a" :> "A" @@
    "advantage" :> "Advantage" @@
    "analyze" :> "Analyze" @@
    "and" :> "And" @@
    "approach" :> "Approach" @@
    "best" :> "Best" @@
    "clear" :> "Clear" @@
    "competitive" :> "Competitive" @@
    "content" :> "Content" @@
    "defined" :> "Defined" @@
    "developments" :> "Developments" @@
    "different" :> "Different" @@
    "efficiency" :> "Efficiency" @@
    "find" :> "Find" @@
    "goals" :> "Goals" @@
    "in" :> "In" @@
    "iterate" :> "Iterate" @@
    "latest" :> "Latest" @@
    "market" :> "Market" @@
    "marketing" :> "Marketing" @@
    "measurable" :> "Measurable" @@
    "methods" :> "Methods" @@
    "metrics" :> "Metrics" @@
    "monitor" :> "Monitor" @@
    "on" :> "On" @@
    "outcomes" :> "Outcomes" @@
    "over" :> "Over" @@
    "performance" :> "Performance" @@
    "quality" :> "Quality" @@
    "quantity" :> "Quantity" @@
    "results" :> "Results" @@
    "seo" :> "Seo" @@
    "start" :> "Start" @@
    "strategic" :> "Strategic" @@
    "strategy" :> "Strategy" @@
    "the" :> "The" @@
    "through" :> "Through" @@
    "to" :> "To" @@
    "trends" :> "Trends" @@
    "updated" :> "Updated" @@
    "what" :> "What" @@
    "with" :> "With" @@
    "works" :> "Works" @@
    "your" :> "Your"

TitleAtom(a) == IF a \in DOMAIN TitleMap THEN TitleMap[a] ELSE a

\* s.title()
TitleCase(s) == [i \in 1..Len(s) |-> TitleAtom(s[i])]

(***************************************************************************)
(* The random module: the generator's hidden state is a number; a draw      *)
(* reads it and every draw advances it.                                     *)
(***************************************************************************)
RngStates == 10
RngStep == 7

\* the state k draws after state r
Rand(r, k) == (r + k * RngStep) % RngStates

\* random.choice(xs) in state r
choice(xs, r) == xs[(r % Len(xs)) + 1]

\* random.randint(a, b) in state r
randint(a, b, r) == a + (r % (b - a + 1))

\* str(datetime.now().year)
CurrentYear == "2026"

\* An exception propagating out of a call.
Raise(kind, what) == [raised |-> kind, what |-> what]
IsRaised(v) == DOMAIN v = {"raised", "what"}

\* d.get(k, default)
Get(d, k, default) == IF k \in DOMAIN d THEN d[k] ELSE default

(***************************************************************************)
(* SEOContentGenerator.load_content_templates                              *)
(***************************************************************************)
content_templates ==
    [blog_post |->
        [intro_hooks |-> <<
            <<"Did", " ", "you", " ", "know", " ", "that", " ", "{statistic}", "?">>,
            <<"Have", " ", "you", " ", "ever", " ", "wondered", " ", "{question}", "?">>,
            <<"In", " ", "today's", " ", "{context}", ",", " ", "{main_topic}", " ", "has", " ", "become", " ", "more", " ", "important", " ", "than", " ", "ever", ".">>,
            <<"{Primary_keyword}", " ", "is", " ", "transforming", " ", "the", " ", "way", " ", "we", " ", "{action}", ".">>,
            <<"The", " ", "ultimate", " ", "guide", " ", "to", " ", "{main_topic}", " ", "starts", " ", "here", ".">> >>],
     review |->
        [intro_hooks |-> <<
            <<"Looking", " ", "for", " ", "an", " ", "honest", " ", "{product_type}", " ", "review?">>,
            <<"After", " ", "{time_period}", " ", "of", " ", "testing", " ", "{product_name}", ",", " ", "here's", " ", "what", " ", "we", " ", "found", ".">>,
            <<"Is", " ", "{product_name}", " ", "worth", " ", "your", " ", "money?", " ", "Let's", " ", "find", " ", "out", ".">>,
            <<"{Product_name}", " ", "promises", " ", "{benefit}", " ", "-", " ", "but", " ", "does", " ", "it", " ", "deliver?">> >>],
     how_to_guide |->
        [intro_hooks |-> <<
            <<"Learning", " ", "{skill}", " ", "doesn't", " ", "have", " ", "to", " ", "be", " ", "complicated", ".">>,
            <<"Master", " ", "{topic}", " ", "with", " ", "this", " ", "comprehensive", " ", "guide", ".">>,
            <<"Follow", " ", "these", " ", "{number}", " ", "simple", " ", "steps", " ", "to", " ", "{achieve_goal}", ".">>,
            <<"Ready", " ", "to", " ", "{action}", "?", " ", "Here's", " ", "everything", " ", "you", " ", "need", " ", "to", " ", "know", ".">> >>],
     landing_page |->
        [intro_hooks |-> <<
            <<"Transform", " ", "your", " ", "{area}", " ", "with", " ", "{solution}", ".">>,
            <<"Stop", " ", "struggling", " ", "with", " ", "{problem}", " ", "-", " ", "there's", " ", "a", " ", "better", " ", "way", ".">>,
            <<"Join", " ", "{number}", "+", " ", "people", " ", "who", " ", "have", " ", "{achieved_result}", ".">>,
            <<"The", " ", "{adjective}", " ", "solution", " ", "to", " ", "{problem}", " ", "is", " ", "finally", " ", "here", ".">> >>]]

(***************************************************************************)
(* SEOContentGenerator.load_seo_patterns                                   *)
(***************************************************************************)
title_patterns == <<
    <<"{number}", " ", "{adjective}", " ", "Ways", " ", "to", " ", "{action}", " ", "{keyword}">>,
    <<"The", " ", "Ultimate", " ", "Guide", " ", "to", " ", "{keyword}", " ", "in", " ", "{year}">>,
    <<"How", " ", "to", " ", "{action}", " ", "{keyword}", ":", " ", "{benefit}">>,
    <<"{keyword}", ":", " ", "Everything", " ", "You", " ", "Need", " ", "to", " ", "Know">>,
    <<"{adjective}", " ", "{keyword}", " ", "Tips", " ", "for", " ", "{target_audience}">>,
    <<"Why", " ", "{keyword}", " ", "is", " ", "{adjective}", " ", "for", " ", "{context}">>,
    <<"{keyword}", " ", "vs", " ", "{alternative}", ":", " ", "Which", " ", "is", " ", "Better?">> >>

h2_patterns == <<
    <<"What", " ", "is", " ", "{keyword}", "?">>,
    <<"Benefits", " ", "of", " ", "{keyword}">>,
    <<"How", " ", "to", " ", "{action}", " ", "{keyword}">>,
    <<"{keyword}", " ", "Best", " ", "Practices">>,
    <<"Common", " ", "{keyword}", " ", "Mistakes", " ", "to", " ", "Avoid">>,
    <<"{keyword}", " ", "Tips", " ", "and", " ", "Tricks">>,
    <<"The", " ", "Future", " ", "of", " ", "{keyword}">> >>

meta_patterns == <<
    <<"Learn", " ", "{keyword}", " ", "with", " ", "our", " ", "comprehensive", " ", "guide", ".", " ", "{benefit}", " ", "in", " ", "{timeframe}", ".", " ", "{call_to_action}", ".">>,
    <<"Discover", " ", "{adjective}", " ", "{keyword}", " ", "strategies", " ", "that", " ", "{result}", ".", " ", "Expert", " ", "tips", " ", "and", " ", "{benefit}", ".">>,
    <<"{keyword}", " ", "made", " ", "simple", ".", " ", "{benefit}", " ", "with", " ", "proven", " ", "methods", ".", " ", "{call_to_action}", ".">>,
    <<"Master", " ", "{keyword}", " ", "with", " ", "this", " ", "{adjective}", " ", "guide", ".", " ", "{benefit}", " ", "and", " ", "{additional_benefit}", ".">> >>

(***************************************************************************)
(* SEOContentGenerator.generate_seo_title                                  *)
(***************************************************************************)
MaxTitleLength == 60

title_adjectives ==
    [blog_post |-> <<<<"Essential">>, <<"Proven">>, <<"Expert">>, <<"Complete">>, <<"Advanced">>>>,
     review |-> <<<<"Honest">>, <<"Detailed">>, <<"Comprehensive">>, <<"In-Depth">>, <<"Unbiased">>>>,
     how_to_guide |-> <<<<"Step-by-Step">>, <<"Complete">>, <<"Beginner's">>, <<"Ultimate">>, <<"Simple">>>>,
     landing_page |-> <<<<"Revolutionary">>, <<"Game-Changing">>, <<"Powerful">>, <<"Innovative">>, <<"Premium">>>>]

title_actions ==
    [blog_post |-> <<<<"Master">>, <<"Improve">>, <<"Optimize">>, <<"Boost">>, <<"Transform">>>>,
     review |-> <<<<"Choose">>, <<"Compare">>, <<"Evaluate">>, <<"Select">>, <<"Find">>>>,
     how_to_guide |-> <<<<"Learn">>, <<"Master">>, <<"Create">>, <<"Build">>, <<"Achieve">>>>,
     landing_page |-> <<<<"Transform">>, <<"Revolutionize">>, <<"Supercharge">>, <<"Optimize">>, <<"Enhance">>>>]

title_fallbacks == <<<<"Complete", " ", "Guide">>, <<"Expert", " ", "Tips">>, <<"Best", " ", "Practices">>>>

\* The title before the length guard; the draws are made in the order of the
\* calls: the pattern, the number, the adjective, the action.
ResolvedTitle(keyword, content_type, r) ==
    LET template == choice(title_patterns, r)
        t1 == Replace(template, "{keyword}", keyword)
        t2 == Replace(t1, "{year}", <<CurrentYear>>)
        t3 == Replace(t2, "{number}", <<ToString(randint(5, 15, Rand(r, 1)))>>)
        t4 == Replace(t3, "{adjective}",
                      choice(Get(title_adjectives, content_type, title_adjectives.blog_post), Rand(r, 2)))
    IN  Replace(t4, "{action}",
                choice(Get(title_actions, content_type, title_actions.blog_post), Rand(r, 3)))

generate_seo_title(keyword, content_type, source, r) ==
    LET title == ResolvedTitle(keyword, content_type, r)
    IN  IF StrLen(title) > MaxTitleLength
        THEN keyword \o <<":", " ">> \o choice(title_fallbacks, Rand(r, 4))
        ELSE title

\* the number of draws generate_seo_title makes
TitleDraws(keyword, content_type, r) ==
    IF StrLen(ResolvedTitle(keyword, content_type, r)) > MaxTitleLength THEN 5 ELSE 4

(***************************************************************************)
(* SEOContentGenerator.generate_meta_description                           *)
(***************************************************************************)
MaxMetaLength == 160

meta_benefits ==
    [blog_post |-> <<<<"increase", " ", "engagement">>, <<"boost", " ", "performance">>, <<"improve", " ", "results">>>>,
     review |-> <<<<"make", " ", "informed", " ", "decisions">>, <<"save", " ", "time", " ", "and", " ", "money">>, <<"choose", " ", "the", " ", "best", " ", "option">>>>,
     how_to_guide |-> <<<<"get", " ", "started", " ", "quickly">>, <<"avoid", " ", "common", " ", "mistakes">>, <<"achieve", " ", "better", " ", "results">>>>,
     landing_page |-> <<<<"transform", " ", "your", " ", "business">>, <<"increase", " ", "conversions">>, <<"boost", " ", "ROI">>>>]

timeframes == <<<<"minutes">>, <<"today">>, <<"this", " ", "week">>, <<"quickly">>>>
ctas == <<<<"Get", " ", "started", " ", "now">>, <<"Learn", " ", "more">>, <<"Try", " ", "it", " ", "today">>, <<"Download", " ", "free", " ", "guide">>>>
meta_adjectives == <<<<"proven">>, <<"effective">>, <<"powerful">>, <<"simple">>>>
MetaDraws == 5

generate_meta_description(keyword, content_type, r) ==
    LET template == choice(meta_patterns, r)
        m1 == Replace(template, "{keyword}", keyword)
        m2 == Replace(m1, "{benefit}",
                      choice(Get(meta_benefits, content_type, meta_benefits.blog_post), Rand(r, 1)))
        m3 == Replace(m2, "{timeframe}", choice(timeframes, Rand(r, 2)))
        m4 == Replace(m3, "{call_to_action}", choice(ctas, Rand(r, 3)))
        m5 == Replace(m4, "{adjective}", choice(meta_adjectives, Rand(r, 4)))
        m6 == Replace(m5, "{result}", <<"deliver", " ", "real", " ", "results">>)
        meta == Replace(m6, "{additional_benefit}", <<"save", " ", "time">>)
    IN  IF StrLen(meta) > MaxMetaLength
        THEN <<"Learn", " ">> \o keyword \o <<" ", "with", " ", "our", " ", "comprehensive", " ", "guide", ".", " ", "Expert", " ", "tips", " ", "and", " ", "proven", " ", "strategies", " ", "to", " ", "improve", " ", "your", " ", "results", ".", " ", "Get", " ", "started", " ", "today", ".">>
        ELSE meta

(***************************************************************************)
(* SEOContentGenerator.generate_introduction                               *)
(***************************************************************************)
MinKeyPointLength == 20

\* [s.strip() for s in sentences if len(s.strip()) > 20]
RECURSIVE KeyPoints(_)
KeyPoints(sentences) ==
    IF sentences = <<>> THEN <<>>
    ELSE (IF StrLen(Strip(Head(sentences))) > MinKeyPointLength
          THEN <<Strip(Head(sentences))>> ELSE <<>>) \o KeyPoints(Tail(sentences))

generate_introduction(keyword, source_text, content_type, tone, r) ==
    IF content_type \notin DOMAIN content_templates
    THEN Raise("KeyError", content_type)
    ELSE
    LET template == content_templates[content_type]
        hooks == Get(template, "intro_hooks", <<>>)
        hook0 == choice(hooks, r)
        hook1 == Replace(hook0, "{Primary_keyword}", TitleCase(keyword))
        hook == Replace(hook1, "{main_topic}", keyword)
        sentences == Take(SplitOn(source_text, <<".">>), 3)
        key_points == KeyPoints(sentences)
        framing ==
            IF source_text # <<>>
            THEN IF key_points # <<>>
                 THEN <<"In", " ", "this", " ", "comprehensive", " ", "guide,", " ", "we'll", " ", "explore", " ">> \o keyword
                      \o <<" ", "and", " ", "discover", " ", "how", " ", "it", " ", "can", " ", "transform", " ", "your", " ", "approach", ".", " ">>
                      \o <<"You'll", " ", "learn", " ", "practical", " ", "strategies,", " ", "expert", " ", "tips,", " ", "and", " ", "actionable", " ", "insights", " ", "to", " ", "master", " ">>
                      \o keyword \o <<".", "\n", "\n">>
                 ELSE <<>>
            ELSE <<"Understanding", " ">> \o keyword \o <<" ", "is", " ", "crucial", " ", "in", " ", "today's", " ", "competitive", " ", "landscape", ".", " ">>
                 \o <<"This", " ", "guide", " ", "will", " ", "provide", " ", "you", " ", "with", " ", "everything", " ", "you", " ", "need", " ", "to", " ", "know", " ", "about", " ">> \o keyword \o <<",", " ">>
                 \o <<"from", " ", "basic", " ", "concepts", " ", "to", " ", "advanced", " ", "strategies", ".", "\n", "\n">>
    IN  hook \o <<"\n", "\n">> \o framing
        \o <<"Whether", " ", "you're", " ", "just", " ", "getting", " ", "started", " ", "or", " ", "looking", " ", "to", " ", "improve", " ", "your", " ", "existing", " ">> \o keyword \o <<" ", "approach,", " ">>
        \o <<"this", " ", "article", " ", "has", " ", "something", " ", "valuable", " ", "for", " ", "you", ".", " ", "Let's", " ", "dive", " ", "in!">>

IntroDraws == 1

(***************************************************************************)
(* SEOContentGenerator.generate_definition_section                         *)
(***************************************************************************)
RECURSIVE Bullets(_)
Bullets(sentences) ==
    IF sentences = <<>> THEN <<>>
    ELSE (IF StrLen(Strip(Head(sentences))) > MinKeyPointLength
          THEN <<"(bullet)", " ">> \o Strip(Head(sentences)) \o <<".", "\n">>
          ELSE <<>>) \o Bullets(Tail(sentences))

\* [s.strip() for s in sentences if primary_keyword.lower() in s.lower()]
RECURSIVE Mentioning(_, _)
Mentioning(sentences, keyword) ==
    IF sentences = <<>> THEN <<>>
    ELSE (IF Contains(Lower(Head(sentences)), Lower(keyword))
          THEN <<Strip(Head(sentences))>> ELSE <<>>) \o Mentioning(Tail(sentences), keyword)

generate_definition_section(keyword, source_text, tone) ==
    LET relevant_sentences == Take(Mentioning(SplitOn(source_text, <<".">>), keyword), 2)
        middle ==
            IF source_text # <<>>
            THEN IF relevant_sentences # <<>>
                 THEN <<"Key", " ", "characteristics", " ", "include:", "\n", "\n">> \o Bullets(relevant_sentences)
                 ELSE <<>>
            ELSE <<"The", " ", "core", " ", "principles", " ", "of", " ", "effective", " ">> \o keyword \o <<" ", "include", " ", "strategic", " ", "planning,", " ">>
                 \o <<"consistent", " ", "implementation,", " ", "and", " ", "continuous", " ", "optimization", " ", "for", " ", "best", " ", "results", ".", "\n", "\n">>
    IN  TitleCase(keyword) \o <<" ", "refers", " ", "to", " ", "the", " ", "strategic", " ", "approach", " ", "of", " ", "optimizing", " ", "and", " ", "implementing", " ">>
        \o keyword \o <<" ", "to", " ", "achieve", " ", "better", " ", "results", " ", "and", " ", "improved", " ", "performance", ".", "\n", "\n">>
        \o middle
        \o <<"\n", "Understanding", " ", "these", " ", "fundamentals", " ", "is", " ", "essential", " ", "for", " ", "anyone", " ", "looking", " ", "to", " ", "leverage", " ">>
        \o keyword \o <<" ", "effectively", " ", "in", " ", "their", " ", "strategy", ".">>

(***************************************************************************)
(* SEOContentGenerator.generate_benefits_section                           *)
(***************************************************************************)
benefits(keyword) == <<
    <<"Improved", " ", "efficiency", " ", "and", " ", "performance", " ", "in", " ">> \o keyword \o <<" ", "implementation">>,
    <<"Better", " ", "results", " ", "through", " ", "strategic", " ">> \o keyword \o <<" ", "optimization">>,
    <<"Increased", " ", "ROI", " ", "and", " ", "measurable", " ", "outcomes">>,
    <<"Enhanced", " ", "competitive", " ", "advantage", " ", "in", " ", "your", " ", "market">>,
    <<"Sustainable", " ", "long-term", " ", "growth", " ", "and", " ", "success">> >>

benefit_explanations(keyword) == <<
    <<"When", " ", "you", " ", "optimize", " ", "your", " ">> \o keyword \o <<" ", "approach,", " ", "you'll", " ", "see", " ", "immediate", " ", "improvements", " ", "in", " ", "efficiency", " ", "and", " ", "effectiveness", ".", "\n", "\n">>,
    <<"Strategic", " ">> \o keyword \o <<" ", "implementation", " ", "leads", " ", "to", " ", "measurable", " ", "improvements", " ", "in", " ", "key", " ", "performance", " ", "indicators", ".", "\n", "\n">>,
    <<"Proper", " ">> \o keyword \o <<" ", "strategies", " ", "provide", " ", "clear", " ", "return", " ", "on", " ", "investment", " ", "through", " ", "improved", " ", "outcomes", ".", "\n", "\n">>,
    <<"Stay", " ", "ahead", " ", "of", " ", "competitors", " ", "by", " ", "leveraging", " ", "advanced", " ">> \o keyword \o <<" ", "techniques", " ", "and", " ", "best", " ", "practices", ".", "\n", "\n">> >>

\* One numbered benefit line: the text before the keyword, title-cased, then
\* the keyword, then the text after it, or the whole benefit when it does not
\* hold the keyword.
BenefitLine(i, benefit, keyword) ==
    LET parts == SplitOn(benefit, keyword)
    IN  <<"**" \o ToString(i), ".", " ">> \o TitleCase(Strip(parts[1])) \o keyword
        \o (IF Contains(benefit, keyword) THEN parts[2] ELSE benefit)
        \o <<"**", "\n">>

RECURSIVE BenefitLines(_, _, _)
BenefitLines(i, n, keyword) ==
    IF i > n THEN <<>>
    ELSE BenefitLine(i, benefits(keyword)[i], keyword) \o benefit_explanations(keyword)[i]
         \o BenefitLines(i + 1, n, keyword)

generate_benefits_section(keyword, secondary, tone) ==
    <<"Implementing", " ", "effective", " ">> \o keyword \o <<" ", "strategies", " ", "offers", " ", "numerous", " ", "advantages:", "\n", "\n">>
    \o BenefitLines(1, 4, keyword)
    \o (IF secondary # <<>>
        THEN <<"Additionally,", " ", "integrating", " ">> \o Join(Take(secondary, 2), <<",", " ">>) \o <<" ", "with", " ", "your", " ">> \o keyword \o <<" ">>
             \o <<"strategy", " ", "can", " ", "amplify", " ", "these", " ", "benefits", " ", "and", " ", "create", " ", "synergistic", " ", "effects", ".">>
        ELSE <<>>)

(***************************************************************************)
(* SEOContentGenerator.generate_howto_section                              *)
(***************************************************************************)
ProTipSourceLength == 200

generate_howto_section(keyword, source_text, tone) ==
    <<"Here's", " ", "a", " ", "step-by-step", " ", "approach", " ", "to", " ", "implementing", " ">> \o keyword \o <<" ", "effectively:", "\n", "\n">>
    \o <<"**Step", " ", "1:", " ", "Plan", " ", "Your", " ">> \o TitleCase(keyword) \o <<" ", "Strategy**", "\n">>
    \o <<"Begin", " ", "by", " ", "defining", " ", "clear", " ", "objectives", " ", "and", " ", "identifying", " ", "key", " ", "areas", " ", "where", " ">> \o keyword \o <<" ", "can", " ", "make", " ", "the", " ", "biggest", " ", "impact", ".", "\n", "\n">>
    \o <<"**Step", " ", "2:", " ", "Implement", " ", "Best", " ", "Practices**", "\n">>
    \o <<"Apply", " ", "proven", " ">> \o keyword \o <<" ", "techniques", " ", "and", " ", "methodologies", " ", "that", " ", "align", " ", "with", " ", "your", " ", "specific", " ", "goals", " ", "and", " ", "requirements", ".", "\n", "\n">>
    \o <<"**Step", " ", "3:", " ", "Monitor", " ", "and", " ", "Optimize**", "\n">>
    \o <<"Track", " ", "performance", " ", "metrics", " ", "and", " ", "continuously", " ", "refine", " ", "your", " ">> \o keyword \o <<" ", "approach", " ", "based", " ", "on", " ", "data", " ", "and", " ", "results", ".", "\n", "\n">>
    \o <<"**Step", " ", "4:", " ", "Scale", " ", "and", " ", "Expand**", "\n">>
    \o <<"Once", " ", "you've", " ", "achieved", " ", "success", " ", "with", " ", "basic", " ">> \o keyword \o <<" ", "implementation,", " ", "expand", " ", "to", " ", "more", " ", "advanced", " ", "strategies", ".", "\n", "\n">>
    \o (IF source_text # <<>> /\ StrLen(source_text) > ProTipSourceLength
        THEN <<"\n", "**Pro", " ", "Tip:**", " ", "Based", " ", "on", " ", "industry", " ", "insights,", " ", "successful", " ">> \o keyword \o <<" ", "implementation", " ">>
             \o <<"requires", " ", "consistent", " ", "effort", " ", "and", " ", "regular", " ", "optimization", " ", "to", " ", "maintain", " ", "peak", " ", "performance", ".">>
        ELSE <<>>)

(***************************************************************************)
(* SEOContentGenerator.generate_best_practices_section                     *)
(***************************************************************************)
practices(keyword) == <<
    <<"Always", " ", "start", " ", "with", " ", "a", " ", "clear", " ">> \o keyword \o <<" ", "strategy", " ", "and", " ", "defined", " ", "goals">>,
    <<"Regularly", " ", "monitor", " ", "and", " ", "analyze", " ">> \o keyword \o <<" ", "performance", " ", "metrics">>,
    <<"Stay", " ", "updated", " ", "with", " ", "the", " ", "latest", " ">> \o keyword \o <<" ", "trends", " ", "and", " ", "developments">>,
    <<"Focus", " ", "on", " ", "quality", " ", "over", " ", "quantity", " ", "in", " ", "your", " ">> \o keyword \o <<" ", "approach">>,
    <<"Test", " ", "and", " ", "iterate", " ", "different", " ">> \o keyword \o <<" ", "methods", " ", "to", " ", "find", " ", "what", " ", "works", " ", "best">> >>

practice_explanations(keyword) == <<
    <<"Clear", " ", "objectives", " ", "ensure", " ", "your", " ">> \o keyword \o <<" ", "efforts", " ", "are", " ", "focused", " ", "and", " ", "measurable", ".", "\n", "\n">>,
    <<"Data-driven", " ", "insights", " ", "help", " ", "you", " ", "optimize", " ", "your", " ">> \o keyword \o <<" ", "performance", " ", "continuously", ".", "\n", "\n">>,
    <<"Staying", " ", "current", " ", "with", " ">> \o keyword \o <<" ", "innovations", " ", "keeps", " ", "you", " ", "competitive", ".", "\n", "\n">>,
    <<"Quality", " ">> \o keyword \o <<" ", "implementation", " ", "delivers", " ", "better", " ", "long-term", " ", "results", ".", "\n", "\n">>,
    <<"Continuous", " ", "testing", " ", "helps", " ", "you", " ", "discover", " ", "the", " ", "most", " ", "effective", " ">> \o keyword \o <<" ", "strategies", ".", "\n", "\n">> >>

RECURSIVE PracticeLines(_, _, _)
PracticeLines(i, n, keyword) ==
    IF i > n THEN <<>>
    ELSE <<"**" \o ToString(i), ".", " ">> \o TitleCase(practices(keyword)[i]) \o <<"**", "\n">>
         \o practice_explanations(keyword)[i] \o PracticeLines(i + 1, n, keyword)

generate_best_practices_section(keyword, secondary, tone) ==
    <<"Follow", " ", "these", " ", "essential", " ">> \o keyword \o <<" ", "best", " ", "practices", " ", "for", " ", "optimal", " ", "results:", "\n", "\n">>
    \o PracticeLines(1, 5, keyword)
    \o (IF secondary # <<>>
        THEN <<"**Remember:**", " ", "Integrating", " ">> \o Join(Take(secondary, 2), <<",", " ">>) \o <<" ", "with", " ", "your", " ">> \o keyword \o <<" ">>
             \o <<"strategy", " ", "can", " ", "significantly", " ", "enhance", " ", "overall", " ", "effectiveness", " ", "and", " ", "results", ".">>
        ELSE <<>>)

(***************************************************************************)
(* SEOContentGenerator.generate_main_sections                              *)
(***************************************************************************)
generate_main_sections(source_text, keyword, secondary, content_type, tone) ==
    [section_1 |->
        [heading |-> Replace(h2_patterns[1], "{keyword}", TitleCase(keyword)),
         content |-> generate_definition_section(keyword, source_text, tone)],
     section_2 |->
        [heading |-> Replace(h2_patterns[2], "{keyword}", TitleCase(keyword)),
         content |-> generate_benefits_section(keyword, secondary, tone)],
     section_3 |->
        [heading |-> Replace(Replace(h2_patterns[3], "{keyword}", keyword), "{action}", <<"implement">>),
         content |-> generate_howto_section(keyword, source_text, tone)],
     section_4 |->
        [heading |-> Replace(h2_patterns[4], "{keyword}", TitleCase(keyword)),
         content |-> generate_best_practices_section(keyword, secondary, tone)]]

(***************************************************************************)
(* SEOContentGenerator.generate_conclusion                                 *)
(***************************************************************************)
generate_conclusion(keyword, content_type, tone) ==
    <<"Mastering", " ">> \o keyword \o <<" ", "is", " ", "essential", " ", "for", " ", "achieving", " ", "outstanding", " ", "results", " ", "in", " ", "today's", " ", "competitive", " ", "environment", ".", " ">>
    \o <<"By", " ", "implementing", " ", "the", " ", "strategies", " ", "and", " ", "best", " ", "practices", " ", "outlined", " ", "in", " ", "this", " ", "guide,", " ", "you'll", " ", "be", " ", "well-equipped", " ", "to", " ">>
    \o <<"leverage", " ">> \o keyword \o <<" ", "effectively", " ", "and", " ", "achieve", " ", "your", " ", "goals", ".", "\n", "\n">>
    \o <<"Remember,", " ", "successful", " ">> \o keyword \o <<" ", "implementation", " ", "requires", " ", "consistency,", " ", "patience,", " ", "and", " ", "continuous", " ", "learning", ".", " ">>
    \o <<"Start", " ", "with", " ", "the", " ", "fundamentals,", " ", "track", " ", "your", " ", "progress,", " ", "and", " ", "gradually", " ", "implement", " ", "more", " ", "advanced", " ", "techniques", " ">>
    \o <<"as", " ", "you", " ", "gain", " ", "experience", ".", "\n", "\n">>
    \o (IF content_type = "blog_post"
        THEN <<"Ready", " ", "to", " ", "take", " ", "your", " ">> \o keyword \o <<" ", "strategy", " ", "to", " ", "the", " ", "next", " ", "level?", " ", "Start", " ", "implementing", " ", "these", " ", "techniques", " ", "today", " ">>
             \o <<"and", " ", "watch", " ", "your", " ", "results", " ", "improve", ".", " ", "Share", " ", "your", " ", "experience", " ", "in", " ", "the", " ", "comments", " ", "below!">>
        ELSE IF content_type = "how_to_guide"
        THEN <<"Now", " ", "you", " ", "have", " ", "all", " ", "the", " ", "tools", " ", "needed", " ", "to", " ", "succeed", " ", "with", " ">> \o keyword \o <<".", " ", "Follow", " ", "the", " ", "steps", " ", "outlined", " ", "above,", " ">>
             \o <<"stay", " ", "consistent,", " ", "and", " ", "you'll", " ", "see", " ", "significant", " ", "improvements", " ", "in", " ", "your", " ", "results", ".">>
        ELSE IF content_type = "review"
        THEN <<"Based", " ", "on", " ", "our", " ", "comprehensive", " ", "analysis,", " ">> \o keyword \o <<" ", "offers", " ", "significant", " ", "value", " ", "when", " ", "implemented", " ", "correctly", ".", " ">>
             \o <<"Consider", " ", "your", " ", "specific", " ", "needs", " ", "and", " ", "choose", " ", "the", " ", "approach", " ", "that", " ", "best", " ", "aligns", " ", "with", " ", "your", " ", "objectives", ".">>
        ELSE <<"Take", " ", "action", " ", "today", " ", "and", " ", "transform", " ", "your", " ">> \o keyword \o <<" ", "approach", ".", " ", "The", " ", "strategies", " ", "in", " ", "this", " ", "guide", " ">>
             \o <<"have", " ", "helped", " ", "countless", " ", "others", " ", "achieve", " ", "success", " ", "-", " ", "now", " ", "it's", " ", "your", " ", "turn", ".">>)

(***************************************************************************)
(* SEOContentGenerator.generate_article_sections                           *)
(***************************************************************************)
\* A section generator whose conclusion takes its call to action by a draw.
generate_article_sections_drawn(source, keyword, secondary, content_type, tone, target_length, r) ==
    LET source_text == Get(source, "content", <<>>)
        introduction == generate_introduction(keyword, source_text, content_type, tone, r)
    IN  IF IsRaised(introduction) THEN introduction
        ELSE [introduction |-> introduction,
              main |-> generate_main_sections(source_text, keyword, secondary, content_type, tone),
              conclusion |-> generate_conclusion(keyword,
                                                 choice(<<"blog_post", "review", "how_to_guide", "landing_page">>, r),
                                                 tone)]

generate_article_sections(source, keyword, secondary, content_type, tone, target_length, r) ==
    LET template == Get(content_templates, content_type, content_templates.blog_post)
        source_text == Get(source, "content", <<>>)
        introduction == generate_introduction(keyword, source_text, content_type, tone, r)
    IN  IF IsRaised(introduction) THEN introduction
        ELSE [introduction |-> introduction,
              main |-> generate_main_sections(source_text, keyword, secondary, content_type, tone),
              conclusion |-> generate_conclusion(keyword, content_type, tone)]

(***************************************************************************)
(* SEOContentGenerator.optimize_keyword_density                            *)
(***************************************************************************)
Paragraphs(s) == SplitOn(s, <<"\n", "\n">>)

\* A pass of the loop body that does not look whether the variation is
\* there already.
InsertVariationUnseen(body, variation) ==
    LET paragraphs == Paragraphs(body)
        insert_point == (Len(paragraphs) \div 2) + 1
    IN  IF Len(paragraphs) > 2
        THEN Join([paragraphs EXCEPT ![insert_point] =
                      @ \o <<" ", "When", " ", "it", " ", "comes", " ", "to", " ">> \o variation \o <<",", " ", "consistency", " ", "is", " ", "key", ".">>],
                  <<"\n", "\n">>)
        ELSE body

\* One pass of the loop body for one variation.
InsertVariation(body, variation) ==
    IF ~Contains(Lower(body), Lower(variation))
    THEN LET paragraphs == Paragraphs(body)
             insert_point == (Len(paragraphs) \div 2) + 1
         IN  IF Len(paragraphs) > 2
             THEN Join([paragraphs EXCEPT ![insert_point] =
                           @ \o <<" ", "When", " ", "it", " ", "comes", " ", "to", " ">> \o variation \o <<",", " ", "consistency", " ", "is", " ", "key", ".">>],
                       <<"\n", "\n">>)
             ELSE body
    ELSE body

\* An optimizer that adds its sentences whether or not the body holds the
\* phrases.
optimize_keyword_density_unseen(body, keyword, secondary) ==
    LET total_words == NumWords(body)
        primary_count == StrCount(Lower(body), Lower(keyword))
        variations == << <<"effective", " ">> \o keyword, keyword \o <<" ", "strategies">> >>
    IN  IF total_words = 0 THEN body
        ELSE IF 100 * primary_count < total_words
        THEN InsertVariationUnseen(InsertVariationUnseen(body, variations[1]), variations[2])
        ELSE body

\* An optimizer that also works on a body at exactly 1.0%.
optimize_keyword_density_inclusive(body, keyword, secondary) ==
    LET total_words == NumWords(body)
        primary_count == StrCount(Lower(body), Lower(keyword))
        variations == << <<"effective", " ">> \o keyword, keyword \o <<" ", "strategies">> >>
    IN  IF total_words = 0 THEN body
        ELSE IF 100 * primary_count <= total_words
        THEN InsertVariation(InsertVariation(body, variations[1]), variations[2])
        ELSE body

optimize_keyword_density(body, keyword, secondary) ==
    LET total_words == NumWords(body)
        primary_count == StrCount(Lower(body), Lower(keyword))
        variations == << <<"effective", " ">> \o keyword, keyword \o <<" ", "strategies">>,
                         <<"successful", " ">> \o keyword, keyword \o <<" ", "implementation">> >>
    IN  IF total_words = 0 THEN body
        ELSE IF 100 * primary_count < total_words
        THEN InsertVariation(InsertVariation(body, variations[1]), variations[2])
        ELSE body

(***************************************************************************)
(* SEOContentGenerator.optimize_content_for_seo                            *)
(***************************************************************************)
SectionText(section) == <<"#", "#", " ">> \o section.heading \o <<"\n", "\n">> \o section.content \o <<"\n", "\n">>

AssembleSections(sections) ==
    sections.introduction \o <<"\n", "\n">>
    \o SectionText(sections.main.section_1) \o SectionText(sections.main.section_2)
    \o SectionText(sections.main.section_3) \o SectionText(sections.main.section_4)
    \o <<"#", "#", " ", "Conclusion", "\n", "\n">> \o sections.conclusion \o <<"\n", "\n">>

optimize_content_for_seo(sections, keyword, secondary) ==
    Strip(optimize_keyword_density(AssembleSections(sections), keyword, secondary))

(***************************************************************************)
(* SEOContentGenerator.generate_schema_markup                              *)
(***************************************************************************)
generate_schema_markup(title, description, keyword, now) ==
    [context |-> "https://schema.org",
     type |-> "Article",
     headline |-> title,
     description |-> description,
     keywords |-> keyword,
     author |-> [type |-> "Organization", name |-> "SEO Content Generator"],
     publisher |-> [type |-> "Organization", name |-> "SEO Content Generator"],
     datePublished |-> now,
     dateModified |-> now]

(***************************************************************************)
(* SEOContentGenerator.generate_seo_article                                *)
(***************************************************************************)
DefaultContentLength == 800

\* The value returned, the steps entered on the way and the state the random
\* module is left in.
generate_seo_article(source, settings, r, now) ==
    LET keyword == Strip(Get(settings, "primary_keyword", <<>>))
        secondary == Get(settings, "secondary_keywords", <<>>)
        content_length == Get(settings, "content_length", DefaultContentLength)
        tone == Get(settings, "tone", "professional")
        content_type == Get(settings, "content_type", "blog_post")
        article_title == generate_seo_title(keyword, content_type, source, r)
        r1 == Rand(r, TitleDraws(keyword, content_type, r))
        meta_description == generate_meta_description(keyword, content_type, r1)
        r2 == Rand(r1, MetaDraws)
        article_sections ==
            generate_article_sections(source, keyword, secondary, content_type, tone, content_length, r2)
        r3 == Rand(r2, IntroDraws)
        optimized_content == optimize_content_for_seo(article_sections, keyword, secondary)
    IN  IF keyword = <<>>
        THEN [returned |-> [error |-> <<"Primary keyword is required for SEO optimization">>],
              steps |-> <<>>,
              rng |-> r]
        ELSE IF IsRaised(article_sections)
        THEN [returned |-> [error |-> <<"Error generating content: ", article_sections.what>>],
              steps |-> <<"generate_seo_title", "generate_meta_description",
                          "generate_article_sections">>,
              rng |-> r2]
        ELSE [returned |->
                 [title |-> article_title,
                  meta_description |-> meta_description,
                  content |-> optimized_content,
                  schema_markup |->
                      generate_schema_markup(article_title, meta_description, keyword, now),
                  seo_analysis |-> analyze_seo_score(optimized_content, keyword, secondary),
                  word_count |-> NumWords(optimized_content),
                  generated_at |-> now,
                  settings_used |-> settings,
                  primary_keyword |-> keyword,
                  secondary_keywords |-> secondary],
              steps |-> <<"generate_seo_title", "generate_meta_description",
                          "generate_article_sections", "optimize_content_for_seo",
                          "generate_schema_markup", "analyze_seo_score">>,
              rng |-> r3]

(***************************************************************************)
(* The calls of generate_seo_article: the inputs of a session and the call *)
(***************************************************************************)
\* primary_keyword as the settings hold it, before it is trimmed
Keywords ==
    { <<>>, <<" ">>, <<"seo">>,
      <<" ", "search", " ", "engine", " ", "optimization", " ">>,
      <<"content", " ", "marketing">>,
      <<"enterprise", " ", "search", " ", "engine", " ", "optimization", " ", "consulting", " ", "services", " ", "for", " ", "startups">> }

SecondaryLists ==
    { <<>>, <<<<"blogging">>>>, <<<<"blogging">>, <<"link", " ", "building">>, <<"analytics">>>> }

KnownContentTypes == {"blog_post", "review", "how_to_guide", "landing_page"}
ContentTypes == KnownContentTypes \cup {"newsletter"}

\* source bodies: none; one with no sentence over 20 characters; one whose
\* sentences name the keyword; one of more than 200 characters; one whose
\* sentence naming the keyword runs over a line break into a "## " line
Sources ==
    { <<>>,
      <<"Short", " ", "note", ".", " ", "Too", " ", "brief", ".">>,
      <<"Good", " ", "seo", " ", "takes", " ", "patience", " ", "and", " ", "steady", " ", "work", ".", " ", "It", " ", "pays", " ", "off", ".">>,
      <<"Search", " ", "engines", " ", "reward", " ", "pages", " ", "that", " ", "answer", " ", "real", " ", "questions", ".", " ", "A", " ", "sound", " ", "seo", " ", "plan", " ", "starts", " ", "with", " ", "keyword", " ", "research", " ", "and", " ", "honest", " ", "writing", ".", " ", "Measure", " ", "the", " ", "results", " ", "every", " ", "month", " ", "and", " ", "adjust", " ", "the", " ", "plan", " ", "when", " ", "the", " ", "rankings", " ", "move", ".", " ", "Keep", " ", "going", ".">>,
      <<"Notes", " ", "on", " ", "seo", " ", "for", " ", "the", " ", "team", "\n", "#", "#", " ", "Old", " ", "seo", " ", "heading", " ", "kept", " ", "here", ".", " ", "Nothing", " ", "else", ".">> }

GenInit ==
    /\ source_content \in {[content |-> s] : s \in Sources}
    /\ seo_settings \in
          {[primary_keyword |-> k, secondary_keywords |-> sec, content_length |-> 800,
            tone |-> "professional", content_type |-> ct] :
              k \in Keywords, sec \in SecondaryLists, ct \in ContentTypes}
    /\ returned = NoValue
    /\ steps = <<>>
    /\ rng \in 0..(RngStates - 1)
    /\ clock = 0
    /\ generated_article = NoValue

GenIdle ==
    /\ source_content = NoValue /\ seo_settings = NoValue /\ returned = NoValue
    /\ steps = <<>> /\ rng = 0 /\ clock = 0 /\ generated_article = NoValue

ScoreIdle ==
    /\ content = NoValue /\ primary_keyword = NoValue /\ secondary_keywords = NoValue
    /\ report = NoValue

GradeIdle == scores = NoValue /\ grades = NoValue

DensityIdle == optimized = NoValue /\ reoptimized = NoValue /\ built_sections = NoValue

EditorIdle == editor_session = NoValue /\ editor_result = NoValue

AuthIdle == auth_session = NoValue /\ login_render = NoValue

\* generate_article_content calls generate_seo_article on the session's
\* source and settings; the session stores the result unless it is an error.
Generate ==
    /\ returned = NoValue
    /\ \E out \in {generate_seo_article(source_content, seo_settings, rng, clock)} :
           /\ returned' = out.returned
           /\ steps' = out.steps
           /\ rng' = out.rng
           /\ generated_article' =
                  IF "error" \in DOMAIN out.returned THEN generated_article ELSE out.returned
    /\ clock' = clock + 1
    /\ UNCHANGED <<source_content, seo_settings, scoreVars, gradeVars, densityVars, editorVars, authVars>>

\* what the editor's content box may hold when Save Changes is pressed: the
\* body emptied, and a short body typed in its place
EditedBodies ==
    { <<>>,
      <<"#", "#", " ", "seo", " ", "tips", "\n", "\n", "Short", " ", "seo", " ", "text", ".">> }

\* A save that keeps the score report of the body it replaces.
SaveChangesStale ==
    /\ generated_article # NoValue
    /\ \E edited_content \in EditedBodies :
           generated_article' =
               [generated_article EXCEPT !.content = edited_content,
                                         !.word_count = NumWords(edited_content)]
    /\ UNCHANGED <<source_content, seo_settings, returned, steps, rng, clock,
                   scoreVars, gradeVars, densityVars, editorVars, authVars>>

\* display_article_editor, Save Changes: the title and the meta description
\* boxes hold what the article holds, the content box holds the edited body.
SaveChanges ==
    /\ generated_article # NoValue
    /\ \E edited_content \in EditedBodies :
       \E edited_title \in {generated_article.title} :
       \E edited_meta \in {generated_article.meta_description} :
       \E new_analysis \in {analyze_seo_score(edited_content,
                                               Get(generated_article, "primary_keyword", <<>>),
                                               Get(generated_article, "secondary_keywords", <<>>))} :
           generated_article' =
               [generated_article EXCEPT !.title = edited_title,
                                         !.meta_description = edited_meta,
                                         !.content = edited_content,
                                         !.word_count = NumWords(edited_content),
                                         !.seo_analysis = new_analysis]
    /\ UNCHANGED <<source_content, seo_settings, returned, steps, rng, clock,
                   scoreVars, gradeVars, densityVars, editorVars, authVars>>

Init == GenInit /\ ScoreIdle /\ GradeIdle /\ DensityIdle /\ EditorIdle /\ AuthIdle
Next == Generate \/ SaveChanges
Spec == Init /\ [][Next]_vars

(***************************************************************************)
(* The calls of analyze_seo_score on bodies of any shape                   *)
(***************************************************************************)
MaxPieces == 3

\* what a short body is put together from
Pieces ==
    { <<"#">>, <<"#", "#", " ">>, <<" ">>, <<"\n">>, <<".">>,
      <<"seo">>, <<"SEO">>, <<"a">>, <<"blog">> }

RECURSIVE PieceSeqs(_)
PieceSeqs(n) ==
    IF n = 0 THEN {<<>>}
    ELSE LET shorter == PieceSeqs(n - 1)
         IN  shorter \cup {s \o p : s \in shorter, p \in Pieces}

\* heads heading lines "## <hw>", after an empty first line
HeadLines(heads, hw) ==
    [i \in 1..(1 + 5 * heads) |->
        IF i = 1 THEN "\n" ELSE <<"#", "#", " ", hw, "\n">>[((i - 2) % 5) + 1]]

\* W words, the first K of them the keyword, then "blog" if asked for, the
\* rest "a"; a full stop after each of the first P words
Filler(W, K, P, blog) ==
    LET word(i) == IF i <= K THEN "seo" ELSE IF blog /\ i = K + 1 THEN "blog" ELSE "a"
    IN  [j \in 1..(3 * P + 2 * (W - P)) |->
            IF j <= 3 * P
            THEN LET o == (j - 1) % 3
                 IN  IF o = 0 THEN word(((j - 1) \div 3) + 1) ELSE IF o = 1 THEN "." ELSE " "
            ELSE LET k == j - 3 * P
                 IN  IF (k - 1) % 2 = 0 THEN word(P + ((k - 1) \div 2) + 1) ELSE " "]

Document(d) == HeadLines(d.heads, d.hw) \o Filler(d.W, d.K, d.P, d.blog)

\* long bodies on the rubric's thresholds: 800 words at 1.0% and at 2.0%
\* with 20 words a sentence, 799 words, 2000 words, and bodies short of
\* headings, of the keyword in a heading, of full stops; and a body of 30
\* words in one sentence that names the keyword too often and has no heading
Documents ==
    { [heads |-> 3, hw |-> "seo", W |-> 794, K |-> 5, P |-> 40, blog |-> TRUE],
      [heads |-> 3, hw |-> "Seo", W |-> 794, K |-> 13, P |-> 40, blog |-> TRUE],
      [heads |-> 3, hw |-> "seo", W |-> 793, K |-> 7, P |-> 45, blog |-> FALSE],
      [heads |-> 3, hw |-> "a", W |-> 1994, K |-> 30, P |-> 100, blog |-> TRUE],
      [heads |-> 2, hw |-> "seo", W |-> 900, K |-> 10, P |-> 30, blog |-> TRUE],
      [heads |-> 0, hw |-> "a", W |-> 30, K |-> 2, P |-> 0, blog |-> FALSE] }

\* the short bodies, and the long ones as they are or after one piece
ScoreBodies ==
    PieceSeqs(MaxPieces)
    \cup {p \o Document(d) : p \in {<<>>} \cup Pieces, d \in Documents}

ScoreKeywords == { <<"seo">> }
ScoreSecondaries == { <<>>, << <<"blog">> >>, << <<"tips">>, <<"Blog">> >> }

ScoreInit ==
    /\ content \in ScoreBodies
    /\ primary_keyword \in ScoreKeywords
    /\ secondary_keywords \in ScoreSecondaries
    /\ report = NoValue

Analyze ==
    /\ report = NoValue
    /\ report' = analyze_seo_score(content, primary_keyword, secondary_keywords)
    /\ UNCHANGED <<content, primary_keyword, secondary_keywords, genVars, gradeVars, densityVars, editorVars, authVars>>

SpecScoreInit == GenIdle /\ ScoreInit /\ GradeIdle /\ DensityIdle /\ EditorIdle /\ AuthIdle
SpecScoreNext == Analyze
SpecScore == SpecScoreInit /\ [][SpecScoreNext]_vars

(***************************************************************************)
(* The calls of get_seo_grade on every pair of scores                      *)
(***************************************************************************)
GradeInit ==
    /\ scores \in (0..max_score) \X (0..max_score)
    /\ grades = NoValue

Grade ==
    /\ grades = NoValue
    /\ grades' = <<get_seo_grade(scores[1]), get_seo_grade(scores[2])>>
    /\ UNCHANGED <<scores, genVars, scoreVars, densityVars, editorVars, authVars>>

SpecGradeInit == GenIdle /\ ScoreIdle /\ GradeInit /\ DensityIdle /\ EditorIdle /\ AuthIdle
SpecGradeNext == Grade
SpecGrade == SpecGradeInit /\ [][SpecGradeNext]_vars

(***************************************************************************)
(* The calls of optimize_keyword_density on bodies of any shape            *)
(***************************************************************************)
MaxDraftPieces == 5

\* what a short body is put together from: a paragraph break, a heading
\* line, a word, a blank, the keyword
DraftPieces ==
    { <<"\n", "\n">>, <<"#", "#", " ", "Guide">>, <<"text">>, <<" ">>, <<"seo">> }

RECURSIVE DraftSeqs(_)
DraftSeqs(n) ==
    IF n = 0 THEN {<<>>}
    ELSE LET shorter == DraftSeqs(n - 1)
         IN  shorter \cup {s \o p : s \in shorter, p \in DraftPieces}

\* n words "a" with a blank between them
WordRun(n) == [j \in 1..(2 * n - 1) |-> IF j % 2 = 1 THEN "a" ELSE " "]

\* three paragraphs: the lead, ten words, n words
LongDraft(lead, n) ==
    lead \o <<"\n", "\n">> \o WordRun(10) \o <<"\n", "\n">> \o WordRun(n)

\* leads that name the keyword once: alone, and inside each of the two
\* phrases the optimizer would insert
DraftLeads ==
    { <<"seo">>, <<"Effective", " ", "seo">>, <<"seo", " ", "Strategies">> }

\* with these the long bodies have 99 to 102 words around one keyword: on
\* either side of a density of 1.0%
DraftRuns == {88, 89, 90}

\* a body of over 200 words without the keyword stays below 1.0% with the
\* two sentences added
SparseRuns == {200}

DensityBodies ==
    DraftSeqs(MaxDraftPieces)
    \cup {LongDraft(lead, n) : lead \in DraftLeads, n \in DraftRuns}
    \cup {LongDraft(<<"text">>, n) : n \in SparseRuns}

DensityInit ==
    /\ content \in DensityBodies
    /\ primary_keyword = <<"seo">>
    /\ secondary_keywords \in { <<>>, << <<"blog">> >> }
    /\ report = NoValue
    /\ optimized = NoValue
    /\ reoptimized = NoValue
    /\ built_sections = NoValue

Optimize ==
    /\ optimized = NoValue
    /\ optimized' = [content |-> optimize_keyword_density(content, primary_keyword, secondary_keywords)]
    /\ UNCHANGED <<content, primary_keyword, secondary_keywords, report, reoptimized,
                   built_sections, genVars, gradeVars, editorVars, authVars>>

\* the optimizer called on the body it returned
OptimizeAgain ==
    /\ optimized # NoValue
    /\ reoptimized = NoValue
    /\ reoptimized' = [content |-> optimize_keyword_density(optimized.content, primary_keyword, secondary_keywords)]
    /\ UNCHANGED <<content, primary_keyword, secondary_keywords, report, optimized,
                   built_sections, genVars, gradeVars, editorVars, authVars>>

SpecDensityInit == GenIdle /\ DensityInit /\ GradeIdle /\ EditorIdle /\ AuthIdle
SpecDensityNext == Optimize \/ OptimizeAgain
SpecDensity == SpecDensityInit /\ [][SpecDensityNext]_vars

(***************************************************************************)
(* generate_seo_article from the sections to the optimized body            *)
(***************************************************************************)
\* a source of one sentence that names the keyword and runs to over 4000
\* words: the article that quotes it has the keyword in under 1.0% of its
\* words
LongSource == <<"Good", " ", "seo", " ">> \o WordRun(4100) \o <<".">>

SectionKeywords == { <<"seo">>, <<"content", " ", "marketing">> }

SectionSecondaries == { <<>>, <<<<"blogging">>, <<"link", " ", "building">>, <<"analytics">>>> }

\* states of the random module that between them draw every intro hook
HookDraws == 0..4

SectionSettings(keywords, types) ==
    {[primary_keyword |-> k, secondary_keywords |-> sec, content_length |-> 800,
      tone |-> "professional", content_type |-> ct] :
        k \in keywords, sec \in SectionSecondaries, ct \in types}

\* every source with every setting and hook; the long source with the
\* keyword it names, for two content types and two hooks
SectionsInit ==
    /\ \/ /\ source_content \in {[content |-> s] : s \in Sources}
          /\ seo_settings \in SectionSettings(SectionKeywords, KnownContentTypes)
          /\ rng \in HookDraws
       \/ /\ source_content = [content |-> LongSource]
          /\ seo_settings \in SectionSettings({<<"seo">>}, {"blog_post", "review"})
          /\ rng \in {0, 1}
    /\ returned = NoValue /\ steps = <<>> /\ clock = 0 /\ generated_article = NoValue
    /\ built_sections = NoValue
    /\ optimized = NoValue
    /\ reoptimized = NoValue

\* generate_seo_article, the call of generate_article_sections
GenerateSections ==
    /\ built_sections = NoValue
    /\ built_sections' =
           generate_article_sections(source_content,
                                     Strip(Get(seo_settings, "primary_keyword", <<>>)),
                                     Get(seo_settings, "secondary_keywords", <<>>),
                                     Get(seo_settings, "content_type", "blog_post"),
                                     Get(seo_settings, "tone", "professional"),
                                     Get(seo_settings, "content_length", DefaultContentLength),
                                     rng)
    /\ rng' = Rand(rng, IntroDraws)
    /\ UNCHANGED <<source_content, seo_settings, returned, steps, clock, generated_article,
                   optimized, reoptimized, scoreVars, gradeVars, editorVars, authVars>>

\* generate_seo_article, the call of optimize_content_for_seo
OptimizeContent ==
    /\ built_sections # NoValue
    /\ optimized = NoValue
    /\ optimized' =
           [content |-> optimize_content_for_seo(built_sections,
                                               Strip(Get(seo_settings, "primary_keyword", <<>>)),
                                                 Get(seo_settings, "secondary_keywords", <<>>))]
    /\ UNCHANGED <<reoptimized, built_sections, genVars, scoreVars, gradeVars, editorVars, authVars>>

SpecSectionsInit == SectionsInit /\ ScoreIdle /\ GradeIdle /\ EditorIdle /\ AuthIdle
SpecSectionsNext == GenerateSections \/ OptimizeContent
SpecSections == SpecSectionsInit /\ [][SpecSectionsNext]_vars

(***************************************************************************)
(* ContentEditor (output_editor.py): the editing session and its history   *)
(***************************************************************************)
MaxUndo == 50

\* dict.copy() of article data: the same keys and values in a new dict
Copy(data) == data

\* initialize_editor_session when st.session_state has no editor_session
NewSession(content_data) ==
    [original_content |-> Copy(content_data),
     current_content |-> Copy(content_data),
     undo_stack |-> <<>>,
     redo_stack |-> <<>>,
     has_unsaved_changes |-> FALSE]

\* initialize_editor_session: a session is made only if none is kept
initialize_editor_session(kept, content_data) ==
    IF kept = NoValue THEN NewSession(content_data) ELSE kept

\* a snapshot of the session's content; its timestamp, description and
\* user, which nothing reads back into the session, are left out
StateSnapshot(session, description) == [content |-> Copy(session.current_content)]

\* A save that keeps what could be redone.
save_content_state_keeping_redo(session, description) ==
    LET pushed == Append(session.undo_stack, StateSnapshot(session, description))
    IN  [session EXCEPT
            !.undo_stack = IF Len(pushed) > MaxUndo
                           THEN SubSeq(pushed, Len(pushed) - MaxUndo + 1, Len(pushed))
                           ELSE pushed,
            !.has_unsaved_changes = TRUE]

save_content_state(session, description) ==
    LET pushed == Append(session.undo_stack, StateSnapshot(session, description))
    IN  [session EXCEPT
            !.undo_stack = IF Len(pushed) > MaxUndo
                           THEN SubSeq(pushed, Len(pushed) - MaxUndo + 1, Len(pushed))
                           ELSE pushed,
            !.redo_stack = <<>>,
            !.has_unsaved_changes = TRUE]

\* the session after the call, and the value returned
undo_last_change(session) ==
    IF session.undo_stack # <<>>
    THEN [session |->
              [session EXCEPT
                  !.redo_stack = Append(@, StateSnapshot(session, "Before undo")),
                  !.undo_stack = SubSeq(@, 1, Len(@) - 1),
                  !.current_content = Copy(session.undo_stack[Len(session.undo_stack)].content)],
          result |-> TRUE]
    ELSE [session |-> session, result |-> FALSE]

\* A redo that does not put the current content on the undo stack.
redo_last_change_forgetful(session) ==
    IF session.redo_stack # <<>>
    THEN [session |->
              [session EXCEPT
                  !.redo_stack = SubSeq(@, 1, Len(@) - 1),
                  !.current_content = Copy(session.redo_stack[Len(session.redo_stack)].content)],
          result |-> TRUE]
    ELSE [session |-> session, result |-> FALSE]

redo_last_change(session) ==
    IF session.redo_stack # <<>>
    THEN [session |->
              [session EXCEPT
                  !.undo_stack = Append(@, StateSnapshot(session, "Before redo")),
                  !.redo_stack = SubSeq(@, 1, Len(@) - 1),
                  !.current_content = Copy(session.redo_stack[Len(session.redo_stack)].content)],
          result |-> TRUE]
    ELSE [session |-> session, result |-> FALSE]

(***************************************************************************)
(* The calls of the ContentEditor methods on one session                   *)
(***************************************************************************)
MaxEdits == 1

\* the article the session is opened on
EditorArticle(generated_at) ==
    [title |-> <<"Draft">>, content |-> <<"text">>, generated_at |-> generated_at]

EditorInit ==
    /\ editor_session = NewSession(EditorArticle(0))
    /\ editor_result = [call |-> "initialize_editor_session"]

\* save_content_state(session, "Manual save")
SaveContentState ==
    /\ editor_session' = save_content_state(editor_session, "Manual save")
    /\ editor_result' = [call |-> "save_content_state"]
    /\ UNCHANGED <<genVars, scoreVars, gradeVars, densityVars, authVars>>

\* render_visual_editor, a section was edited: the state is saved, then the
\* longer body is written into current_content
EditContent ==
    /\ Len(editor_session.current_content.content) < 2 * MaxEdits + 1
    /\ editor_session' =
           [save_content_state(editor_session, "Content section edit")
               EXCEPT !.current_content.content = @ \o <<" ", "more">>]
    /\ editor_result' = [call |-> "save_content_state"]
    /\ UNCHANGED <<genVars, scoreVars, gradeVars, densityVars, authVars>>

UndoLastChange ==
    /\ \E out \in {undo_last_change(editor_session)} :
           /\ editor_session' = out.session
           /\ editor_result' = [call |-> "undo_last_change", result |-> out.result]
    /\ UNCHANGED <<genVars, scoreVars, gradeVars, densityVars, authVars>>

RedoLastChange ==
    /\ \E out \in {redo_last_change(editor_session)} :
           /\ editor_session' = out.session
           /\ editor_result' = [call |-> "redo_last_change", result |-> out.result]
    /\ UNCHANGED <<genVars, scoreVars, gradeVars, densityVars, authVars>>

SpecEditorInit == GenIdle /\ ScoreIdle /\ GradeIdle /\ DensityIdle /\ EditorInit /\ AuthIdle
SpecEditorNext == SaveContentState \/ EditContent \/ UndoLastChange \/ RedoLastChange
SpecEditor == SpecEditorInit /\ [][SpecEditorNext]_vars

(***************************************************************************)
(* Generating articles and opening them in the output editor               *)
(***************************************************************************)
MaxGenerations == 3

\* what the session holds as current_content and seo_settings when Generate
\* is pressed: two of the source bodies; no keyword, or one of two keywords
RenderSources == {s \in Sources : Len(s) > 0 /\ Len(s) < 25}

RenderSettings ==
    {[primary_keyword |-> k, secondary_keywords |-> <<>>, content_length |-> 800,
      tone |-> "professional", content_type |-> "blog_post"] :
        k \in {<<>>, <<"seo">>, <<"content", " ", "marketing">>}}

RenderInit ==
    /\ source_content = NoValue /\ seo_settings = NoValue /\ returned = NoValue
    /\ steps = <<>> /\ rng = 0 /\ clock = 0 /\ generated_article = NoValue
    /\ editor_session = NoValue /\ editor_result = NoValue

\* generate_article_content, pressed again and again: each call reads the
\* source and the settings the session holds by then and stores the result
\* unless it is an error
GenerateArticleContent ==
    /\ clock < MaxGenerations
    /\ \E s \in RenderSources, settings \in RenderSettings :
           /\ source_content' = [content |-> s]
           /\ seo_settings' = settings
           /\ \E out \in {generate_seo_article([content |-> s], settings, rng, clock)} :
                  /\ returned' = out.returned
                  /\ steps' = out.steps
                  /\ rng' = out.rng
                  /\ generated_article' =
                         IF "error" \in DOMAIN out.returned
                         THEN generated_article
                         ELSE out.returned
    /\ clock' = clock + 1
    /\ UNCHANGED <<scoreVars, gradeVars, densityVars, editorVars, authVars>>

\* render_output_editor_interface with an article to edit: the session is
\* initialized on generated_article, the visual editor may take an edit of a
\* section, and the session's current content is written back
RenderOutputEditor ==
    /\ generated_article # NoValue
    /\ \E session \in {initialize_editor_session(editor_session, generated_article)} :
       \E edited \in {e \in BOOLEAN : e => Len(session.undo_stack) < MaxEdits} :
       \E shown \in {IF edited
                     THEN [save_content_state(session, "Content section edit")
                              EXCEPT !.current_content.content = @ \o <<" ", "more">>]
                     ELSE session} :
           /\ editor_session' = shown
           /\ generated_article' = Copy(shown.current_content)
    /\ editor_result' = [call |-> "render_output_editor_interface"]
    /\ UNCHANGED <<source_content, seo_settings, returned, steps, rng, clock,
                   scoreVars, gradeVars, densityVars, authVars>>

SpecRenderInit == RenderInit /\ ScoreIdle /\ GradeIdle /\ DensityIdle /\ AuthIdle
SpecRenderNext == GenerateArticleContent \/ RenderOutputEditor
SpecRender == SpecRenderInit /\ [][SpecRenderNext]_vars

(***************************************************************************)
(* auth.py: the login page and its lockout                                 *)
(***************************************************************************)
MaxMinutes == 31

\* the lockout of render_enhanced_login: five attempts, fifteen minutes
MaxLoginAttempts == 5
CooldownMinutes == 15

\* hashlib.sha256(password.encode()).hexdigest(): the digest of a password
hash_password(password) == <<"sha256", password>>

verify_password(password, password_hash) == hash_password(password) = password_hash

\* the users file: the demo user, and a user whose account was deactivated
users_data ==
    [demo |-> [password_hash |-> hash_password("password123"), role |-> "user",
               is_active |-> TRUE],
     retired |-> [password_hash |-> hash_password("longgone"), role |-> "user",
                  is_active |-> FALSE]]

\* authenticate_user: whether it succeeded and what it returned with that;
\* the last_login it writes into the users file is left out
authenticate_user(username, password) ==
    IF username \notin DOMAIN users_data
    THEN [success |-> FALSE, result |-> NoValue]
    ELSE IF ~users_data[username].is_active
    THEN [success |-> FALSE, result |-> [error |-> "Account is deactivated"]]
    ELSE IF verify_password(password, users_data[username].password_hash)
    THEN [success |-> TRUE, result |-> users_data[username]]
    ELSE [success |-> FALSE, result |-> [error |-> "Invalid password"]]

\* datetime.isoformat() and datetime.fromisoformat(): a time, in minutes, as
\* the string the session keeps; NoFailedLogin is the None it holds before
isoformat(now) == <<"T", now>>
fromisoformat(text) == text[2]
NoFailedLogin == <<>>

\* what a login form can be submitted with; the Login button is pressed or not
LoginNames == {"", "demo", "retired", "guest"}
LoginPasswords == {"", "password123", "letmein"}
LoginForms ==
    {[login_submitted |-> b, username |-> u, password |-> p] :
        b \in BOOLEAN, u \in LoginNames, p \in LoginPasswords}

\* what a render of the login page did
LoginRender(refused, checked, success) ==
    [refused |-> refused, checked |-> checked, success |-> success]

\* render_login_form: the session after it, and what the render did
render_login_form(session, now, form) ==
    IF form.login_submitted /\ form.username # "" /\ form.password # ""
    THEN LET outcome == authenticate_user(form.username, form.password)
         IN  IF outcome.success
             THEN [session |->
                       [session EXCEPT !.authenticated = TRUE,
                                       !.username = form.username,
                                       !.user_data = outcome.result,
                                       !.login_attempts = 0,
                                       !.last_failed_login = NoFailedLogin],
                   render |-> LoginRender(FALSE, TRUE, TRUE)]
             ELSE [session |->
                       [session EXCEPT !.login_attempts = @ + 1,
                                       !.last_failed_login = isoformat(now)],
                   render |-> LoginRender(FALSE, TRUE, FALSE)]
    ELSE [session |-> session, render |-> LoginRender(FALSE, FALSE, FALSE)]

\* A login page without the check for too many attempts.
render_enhanced_login_unlimited(session, now, form) ==
    render_login_form(session, now, form)

\* render_enhanced_login: refused during the cooldown; after it the attempts
\* are reset and the form is rendered
render_enhanced_login(session, now, form) ==
    IF session.login_attempts >= MaxLoginAttempts /\ session.last_failed_login # NoFailedLogin
    THEN IF now - fromisoformat(session.last_failed_login) < CooldownMinutes
         THEN [session |-> session, render |-> LoginRender(TRUE, FALSE, FALSE)]
         ELSE render_login_form([session EXCEPT !.login_attempts = 0,
                                                !.last_failed_login = NoFailedLogin],
                                now, form)
    ELSE render_login_form(session, now, form)

\* initialize_auth_session on a new session
AuthInit ==
    /\ auth_session = [authenticated |-> FALSE, username |-> "", user_data |-> NoValue,
                       login_attempts |-> 0, last_failed_login |-> NoFailedLogin]
    /\ login_render = NoValue
    /\ source_content = NoValue /\ seo_settings = NoValue /\ returned = NoValue
    /\ steps = <<>> /\ rng = 0 /\ clock = 0 /\ generated_article = NoValue

\* one run of the login page
RenderEnhancedLogin ==
    /\ \E form \in LoginForms :
       \E out \in {render_enhanced_login(auth_session, clock, form)} :
           /\ auth_session' = out.session
           /\ login_render' = out.render
    /\ UNCHANGED <<genVars, scoreVars, gradeVars, densityVars, editorVars>>

\* logout_user
LogoutUser ==
    /\ auth_session.authenticated
    /\ auth_session' = [auth_session EXCEPT !.authenticated = FALSE,
                                            !.username = "",
                                            !.user_data = NoValue]
    /\ UNCHANGED <<login_render, genVars, scoreVars, gradeVars, densityVars, editorVars>>

\* datetime.now() moves on, by a minute or by most of a cooldown
PassTime ==
    /\ \E minutes \in {1, CooldownMinutes - 1} :
           /\ clock + minutes <= MaxMinutes
           /\ clock' = clock + minutes
    /\ UNCHANGED <<source_content, seo_settings, returned, steps, rng, generated_article,
                   scoreVars, gradeVars, densityVars, editorVars, authVars>>

SpecAuthInit == AuthInit /\ ScoreIdle /\ GradeIdle /\ DensityIdle /\ EditorIdle
SpecAuthNext == RenderEnhancedLogin \/ LogoutUser \/ PassTime
SpecAuth == SpecAuthInit /\ [][SpecAuthNext]_vars

(***************************************************************************)
(* Properties of generate_seo_article                                      *)
(***************************************************************************)
Called == returned # NoValue

\* the configured primary keyword is empty or holds only whitespace
BlankKeyword ==
    \A i \in 1..Len(seo_settings.primary_keyword) : IsSpace(seo_settings.primary_keyword[i])

IsErrorResult == "error" \in DOMAIN returned

ArticleFields == {"title", "meta_description", "content", "schema_markup", "seo_analysis"}

\* C1: whatever the source document, a call whose configured primary keyword
\* is empty or only whitespace returns an error result that carries none of
\* the article fields, and no title, meta-description, section, optimizer or
\* scorer step has run.
C1_BlankKeywordRefused ==
    (Called /\ BlankKeyword) =>
        /\ IsErrorResult
        /\ DOMAIN returned \cap ArticleFields = {}
        /\ steps = <<>>

\* a call with a keyword of blanks only, on a source that has text, has
\* returned its error
C1_Witness ==
    /\ Called
    /\ seo_settings.primary_keyword = <<" ">>
    /\ source_content.content # <<>>
    /\ IsErrorResult

\* C2: a call with a non-empty primary keyword and a content type outside
\* blog_post, review, how_to_guide, landing_page does not fail: it returns a
\* complete article, not an error result.
C2_UnknownTypeFallsBack ==
    (Called /\ ~BlankKeyword /\ seo_settings.content_type \notin KnownContentTypes) =>
        /\ ~IsErrorResult
        /\ ArticleFields \subseteq DOMAIN returned

\* C3: whatever the source document and the random choices, a call with a
\* non-empty primary keyword returns an article whose content contains the
\* primary keyword at least once, letter case aside.
C3_ArticleNamesKeyword ==
    (Called /\ ~BlankKeyword) =>
        /\ "content" \in DOMAIN returned
        /\ Contains(Lower(returned.content), Lower(Strip(seo_settings.primary_keyword)))

\* C3 for the content types the template table knows: the only calls that
\* return no article naming the keyword are those C2 is about.
C3_KnownTypesNameKeyword ==
    (Called /\ ~BlankKeyword /\ seo_settings.content_type \in KnownContentTypes) =>
        /\ "content" \in DOMAIN returned
        /\ Contains(Lower(returned.content), Lower(Strip(seo_settings.primary_keyword)))

(***************************************************************************)
(* Properties of analyze_seo_score                                         *)
(***************************************************************************)
Scored == report # NoValue

HasWords == \E i \in 1..Len(content) : ~IsSpace(content[i])

\* the rubric's measurements, taken from the body itself
Words == NumWords(content)
KeywordUses == StrCount(Lower(content), Lower(primary_keyword))
HeadingMarks == StrCount(content, H2Marker)
KeywordInHeading ==
    \E p \in Matches(content, H2Marker) :
        Contains(Lower(SubSeq(content, p + 3, LineEnd(content, p + 3))), Lower(primary_keyword))
SecondaryPresent ==
    \E i \in 1..Len(secondary_keywords) : Contains(Lower(content), Lower(secondary_keywords[i]))
FullStops == StrCount(content, <<".">>)
SentenceCount == IF FullStops > 1 THEN FullStops ELSE 1

\* the rubric's six criteria
DensityPoints ==
    IF Words <= 100 * KeywordUses /\ 100 * KeywordUses <= 2 * Words THEN 20
    ELSE IF 100 * KeywordUses < Words THEN 10 ELSE 5
LengthPoints == IF Words < 800 THEN 10 ELSE IF Words > 2000 THEN 15 ELSE 20
HeadingPoints == IF HeadingMarks >= 3 THEN 15 ELSE IF HeadingMarks = 2 THEN 10 ELSE 0
KeywordHeadingPoints == IF KeywordInHeading THEN 15 ELSE 0
SecondaryPoints == IF secondary_keywords # <<>> /\ SecondaryPresent THEN 10 ELSE 0
ReadabilityPoints == IF Words <= 20 * SentenceCount THEN 10 ELSE 0

RubricSum ==
    DensityPoints + LengthPoints + HeadingPoints + KeywordHeadingPoints
    + SecondaryPoints + ReadabilityPoints

FullMarks ==
    /\ HasWords
    /\ DensityPoints = 20
    /\ LengthPoints = 20
    /\ HeadingMarks >= 3
    /\ KeywordInHeading
    /\ secondary_keywords # <<>> /\ SecondaryPresent
    /\ ReadabilityPoints = 10

\* C6 as stated: a body with full marks on every criterion receives score 100
\* and grade A+.
C6_FullMarksScore100 ==
    (Scored /\ FullMarks) => (report.score = 100 /\ report.grade = "A+")

\* C6: a body with full marks on every criterion receives score 90, the most
\* the six criteria add up to, and grade A+.
C6_FullMarksScore90 ==
    (Scored /\ FullMarks) => (report.score = 90 /\ report.grade = "A+")

\* a body with full marks on every criterion was scored
C6_Witness == Scored /\ FullMarks /\ "grade" \in DOMAIN report

\* C8: for a body with no words (empty, or whitespace only) the report is
\* exactly score 0 with the single issue "No content to analyze": no other
\* field is present.
C8_EmptyBodyShortCircuits ==
    (Scored /\ ~HasWords) =>
        report = [score |-> 0, issues |-> << <<"No content to analyze">> >>]

\* a body of whitespace only was scored
C8_Witness == Scored /\ content # <<>> /\ ~HasWords /\ report.score = 0

\* the recommendation appended together with each issue
RecommendationFor(issue) ==
    CASE issue[1] = "Primary keyword density is low" -> "Increase primary keyword usage naturally"
      [] issue[1] = "Primary keyword density is high" -> "Reduce keyword density to avoid over-optimization"
      [] issue[1] = "Content is short" -> "Consider adding more comprehensive information"
      [] issue[1] = "Add more H2 headings for better structure" -> "Include 3-5 H2 headings for optimal structure"
      [] issue[1] = "Primary keyword not found in headings" -> "Include primary keyword in at least one heading"
      [] issue[1] = "Secondary keywords not found in content" -> "Include secondary keywords naturally in content"
      [] issue[1] = "Sentences are too long on average" -> "Use shorter sentences for better readability"
      [] OTHER -> "none"

IssuesPaired ==
    /\ "recommendations" \in DOMAIN report
    /\ Len(report.issues) = Len(report.recommendations)
    /\ \A i \in 1..Len(report.issues) :
           report.recommendations[i] = RecommendationFor(report.issues[i])

\* C9 as stated: for every input, the empty body included, the report holds
\* an issues list and a recommendations list of equal length, each issue
\* paired with the recommendation appended at the same step.
C9_AlwaysPaired == Scored => IssuesPaired

\* C9: for every body with at least one word the report holds an issues list
\* and a recommendations list of equal length, each issue paired with the
\* recommendation appended at the same step; the report of a body with no
\* words holds one issue and no recommendations list.
C9_PairedWhenWords ==
    /\ (Scored /\ HasWords) => IssuesPaired
    /\ (Scored /\ ~HasWords) =>
           ("recommendations" \notin DOMAIN report /\ Len(report.issues) = 1)

\* a body with words that fails at least three criteria was scored
C9_Witness == Scored /\ HasWords /\ Len(report.issues) >= 3

\* the lines of the body that begin with "## "
H2Lines ==
    {p \in Matches(content, H2Marker) : p = 1 \/ content[p - 1] = "\n"}

\* C10: for every non-empty body the reported h2_count is the number of lines
\* that begin with "## ": a "### " line and a "## " in the middle of a line
\* are not counted.
C10_H2CountIsLineCount ==
    (Scored /\ HasWords) => report.h2_count = Cardinality(H2Lines)

(***************************************************************************)
(* Properties of get_seo_grade                                             *)
(***************************************************************************)
Graded == grades # NoValue

GradeOf(s) ==
    CHOOSE g \in {"A+", "A", "B", "C", "D", "F"} :
        /\ g = "A+" <=> s >= 90
        /\ g = "A" <=> (80 <= s /\ s < 90)
        /\ g = "B" <=> (70 <= s /\ s < 80)
        /\ g = "C" <=> (60 <= s /\ s < 70)
        /\ g = "D" <=> (50 <= s /\ s < 60)
        /\ g = "F" <=> s < 50

GradeRank(g) ==
    CASE g = "A+" -> 6 [] g = "A" -> 5 [] g = "B" -> 4 [] g = "C" -> 3 [] g = "D" -> 2
      [] OTHER -> 1

\* C7: every score in 0..100 is graded A+ from 90, A from 80, B from 70, C
\* from 60, D from 50 and F below; so for scores s1 < s2 the grade of s1 is
\* never ranked above the grade of s2.
C7_GradeTableMonotonic ==
    Graded =>
        /\ grades[1] = GradeOf(scores[1])
        /\ grades[2] = GradeOf(scores[2])
        /\ scores[1] < scores[2] => GradeRank(grades[1]) <= GradeRank(grades[2])

\* the scores on either side of the A+ threshold were graded
C7_Witness == Graded /\ scores = <<89, 90>> /\ grades = <<"A", "A+">>

(***************************************************************************)
(* Properties of the assembled article                                     *)
(***************************************************************************)
Succeeded == Called /\ ~IsErrorResult

\* the positions of s at which a line beginning with "## " starts
H2LineStarts(s) == {p \in Matches(s, H2Marker) : p = 1 \/ s[p - 1] = "\n"}

\* the lines of s that begin with "## ", in the order they stand in s
H2LinesOf(s) ==
    LET starts == H2LineStarts(s)
        nth(k) == CHOOSE p \in starts : Cardinality({q \in starts : q < p}) = k - 1
    IN  [k \in 1..Cardinality(starts) |-> SubSeq(s, nth(k), LineEnd(s, nth(k)))]

\* the heading lines of the sections the section generator produces for the
\* call, in its fixed order, with the conclusion's last
SectionHeadingLines ==
    LET main == generate_main_sections(Get(source_content, "content", <<>>),
                                       returned.primary_keyword,
                                       returned.secondary_keywords,
                                       seo_settings.content_type, seo_settings.tone)
    IN  << H2Marker \o main.section_1.heading, H2Marker \o main.section_2.heading,
           H2Marker \o main.section_3.heading, H2Marker \o main.section_4.heading,
           H2Marker \o <<"Conclusion">> >>

\* C11: the content of every successful generation holds exactly five lines
\* beginning with "## ": the headings of the definition, benefits, how-to and
\* best-practices sections in that order, then "## Conclusion"; the
\* introduction stands before them without a heading.
C11_FiveHeadingLines ==
    Succeeded =>
        /\ H2LinesOf(returned.content) = SectionHeadingLines
        /\ 1 \notin H2LineStarts(returned.content)

\* no line of the source document begins with "## "
PlainSource == H2LineStarts(Get(source_content, "content", <<>>)) = {}

\* C11 for source documents that hold no "## " line of their own: assembly
\* and the density optimizer drop and reorder nothing.
C11_PlainSourceFiveHeadingLines ==
    (Succeeded /\ PlainSource) =>
        /\ H2LinesOf(returned.content) = SectionHeadingLines
        /\ 1 \notin H2LineStarts(returned.content)

(***************************************************************************)
(* Properties of generate_seo_title and generate_meta_description          *)
(***************************************************************************)
\* C12: for every non-empty primary keyword and every content type the title
\* returned is at most 60 characters long.
C12_TitleWithinBudget == Succeeded => StrLen(returned.title) <= 60

\* C12 for keywords that leave room for the longest fallback suffix (": " and
\* 14 characters): the fallback keeps the title within 60 characters.
C12_ShortKeywordTitleWithinBudget ==
    (Succeeded /\ StrLen(returned.primary_keyword) + 16 <= 60) =>
        StrLen(returned.title) <= 60

\* C13: for every non-empty primary keyword and every content type the meta
\* description returned is at most 160 characters long.
C13_MetaWithinBudget == Succeeded => StrLen(returned.meta_description) <= 160

\* C13 for keywords that leave room for the fixed fallback text (114
\* characters besides the keyword).
C13_ShortKeywordMetaWithinBudget ==
    (Succeeded /\ StrLen(returned.primary_keyword) + 114 <= 160) =>
        StrLen(returned.meta_description) <= 160

(***************************************************************************)
(* Properties of optimize_keyword_density                                  *)
(***************************************************************************)
Optimized == optimized # NoValue

\* how often the keyword stands in the body that came back
KeywordUsesAfter == StrCount(Lower(optimized.content), Lower(primary_keyword))

\* C14: a body whose keyword density (occurrences of the keyword, whatever
\* its case, over the words) is at least 1.0%, and a body of no words, comes
\* back from optimize_keyword_density as it went in.
C14_DenseBodyUnchanged ==
    (Optimized /\ (Words = 0 \/ 100 * KeywordUses >= Words))
        => optimized.content = content

\* a body of 100 words with the keyword once, at exactly 1.0%, came back
C14_Witness ==
    /\ Optimized
    /\ Words = 100 /\ KeywordUses = 1
    /\ Len(Paragraphs(content)) > 2
    /\ optimized.content = content

\* the lines of s
LinesOf(s) == SplitOn(s, <<"\n">>)

\* the lines of s that start with "#"
HeadingLinesOf(s) ==
    {l \in {LinesOf(s)[i] : i \in 1..Len(LinesOf(s))} : Len(l) > 0 /\ l[1] = "#"}

\* C15: optimize_keyword_density changes no heading line: every line of the
\* body that starts with "#" is a line of the body that comes back, also
\* when the paragraph the phrases are put into is a heading.
C15_HeadingLinesKept ==
    Optimized =>
        HeadingLinesOf(content) \subseteq {LinesOf(optimized.content)[i] : i \in 1..Len(LinesOf(optimized.content))}

\* C16: a body of at least one word that never names the keyword comes back
\* from optimize_keyword_density naming it at least once, however many
\* paragraphs it has.
C16_KeywordCountGrows ==
    (Optimized /\ Words >= 1 /\ primary_keyword # <<>> /\ KeywordUses = 0)
        => KeywordUsesAfter > 0

\* C18: every call returns a value, an error result or a complete article,
\* and the one condition that yields an error result is an empty primary
\* keyword: an empty source body or an unknown content type still yields an
\* article.
C18_OnlyBlankKeywordErrs ==
    Called =>
        /\ IsErrorResult <=> BlankKeyword
        /\ ~IsErrorResult => ArticleFields \subseteq DOMAIN returned

\* C18 for the content types the template table knows: the only calls with a
\* keyword that return an error result are those C2 is about.
C18_KnownTypesOnlyBlankKeywordErrs ==
    (Called /\ seo_settings.content_type \in KnownContentTypes) =>
        /\ IsErrorResult <=> BlankKeyword
        /\ ~IsErrorResult => ArticleFields \subseteq DOMAIN returned

\* C19: the score report kept with the article is the scorer's result for
\* the body the article holds now, and word_count is the number of words of
\* that body: after generate_seo_article and after every Save Changes.
C19_ReportMatchesBody ==
    generated_article # NoValue =>
        /\ generated_article.seo_analysis =
               analyze_seo_score(generated_article.content,
                                 generated_article.primary_keyword,
                                 generated_article.secondary_keywords)
        /\ generated_article.word_count = NumWords(generated_article.content)

\* an article whose generated body was replaced in the editor by a body of
\* a few words, and scored again
C19_Witness ==
    /\ generated_article # NoValue
    /\ generated_article.content \in EditedBodies
    /\ generated_article.content # returned.content
    /\ generated_article.word_count > 0
    /\ generated_article.seo_analysis # returned.seo_analysis

\* the placeholder tokens the templates are written with
KnownPlaceholders ==
    { "{keyword}", "{Primary_keyword}", "{year}", "{number}", "{adjective}",
      "{action}", "{benefit}", "{timeframe}", "{call_to_action}" }

HasPlaceholder(s) == \E i \in 1..Len(s) : s[i] \in KnownPlaceholders

\* the hook the introduction opens with: the article's first paragraph
IntroductionHook == Head(Paragraphs(returned.content))

\* C20: every known placeholder of a chosen template is substituted: the
\* title, the meta description and the introduction hook of a returned
\* article hold none of the tokens, whatever templates were drawn.
C20_PlaceholdersSubstituted ==
    Succeeded =>
        /\ ~HasPlaceholder(returned.title)
        /\ ~HasPlaceholder(returned.meta_description)
        /\ ~HasPlaceholder(IntroductionHook)

\* C20 for the meta description alone: each of its tokens has a replacement.
C20_MetaPlaceholdersSubstituted ==
    Succeeded => ~HasPlaceholder(returned.meta_description)

(***************************************************************************)
(* Properties of the introduction                                          *)
(***************************************************************************)
\* the positions of s at which a line beginning with "#" starts
HeadingStarts(s) == {p \in 1..Len(s) : s[p] = "#" /\ (p = 1 \/ s[p - 1] = "\n")}

\* the paragraphs of the article that stand before its first heading
IntroductionParagraphs ==
    LET starts == HeadingStarts(returned.content)
        before == IF starts = {} THEN returned.content
                  ELSE SubSeq(returned.content, 1, SetMin(starts) - 1)
    IN  Paragraphs(Strip(before))

StartsWith(s, prefix) == Len(s) >= Len(prefix) /\ SubSeq(s, 1, Len(prefix)) = prefix

EndsWith(s, suffix) ==
    Len(s) >= Len(suffix) /\ SubSeq(s, Len(s) - Len(suffix) + 1, Len(s)) = suffix

\* hook, one framing passage that names the keyword, closing
FramedIntroduction ==
    \E intro \in {IntroductionParagraphs} :
        /\ Len(intro) = 3
        /\ IF source_content.content # <<>>
           THEN StartsWith(intro[2], <<"In", " ", "this", " ", "comprehensive", " ", "guide,">>)
           ELSE StartsWith(intro[2], <<"Understanding", " ">>)
        /\ Contains(intro[2], Strip(seo_settings.primary_keyword))
        /\ EndsWith(intro[3], <<"Let's", " ", "dive", " ", "in!">>)

\* C21: every introduction is the hook, then exactly one framing passage
\* that names the keyword (the source-derived one when the source has text,
\* the generic one otherwise), then the closing that ends in "Let's dive
\* in!"; also when no leading sentence of the source is over 20 characters.
C21_IntroductionHasFraming == Succeeded => FramedIntroduction

\* the source has text, and none of its first three sentences is longer
\* than 20 characters
NoKeyPoints ==
    /\ source_content.content # <<>>
    /\ KeyPoints(Take(SplitOn(source_content.content, <<".">>), 3)) = <<>>

\* C21 for the sources that are empty or have a key point: the only
\* introductions without a framing passage are those of sources with text
\* and no key point.
C21_FramedUnlessNoKeyPoints == (Succeeded /\ ~NoKeyPoints) => FramedIntroduction

(***************************************************************************)
(* Properties of the optimizer's insertions                                *)
(***************************************************************************)
\* the two candidate phrases, and the sentence written for one
CandidatePhrases == << <<"effective", " ">> \o primary_keyword, primary_keyword \o <<" ", "strategies">> >>

SentenceFor(phrase) ==
    <<" ", "When", " ", "it", " ", "comes", " ", "to", " ">> \o phrase
    \o <<",", " ", "consistency", " ", "is", " ", "key", ".">>

\* the sentences for the candidate phrases the body does not hold yet
MissingSentences ==
    (IF Contains(Lower(content), Lower(CandidatePhrases[1])) THEN <<>> ELSE SentenceFor(CandidatePhrases[1]))
    \o (IF Contains(Lower(content), Lower(CandidatePhrases[2])) THEN <<>> ELSE SentenceFor(CandidatePhrases[2]))

LowDensity == Words > 0 /\ 100 * KeywordUses < Words

\* the body came back with the missing sentences at the end of the paragraph
\* at index paragraph_count // 2 and every other paragraph as it was
SentencesAtMidpoint ==
    \E before \in {Paragraphs(content)} : \E after \in {Paragraphs(optimized.content)} :
        /\ Len(after) = Len(before)
        /\ \A i \in 1..Len(before) :
               after[i] = IF i = (Len(before) \div 2) + 1 THEN before[i] \o MissingSentences ELSE before[i]

\* C22: below 1.0% the optimizer appends one sentence for each of the two
\* candidate phrases the body does not hold, to the paragraph at index
\* paragraph_count // 2; the number of paragraphs stays and every other
\* paragraph comes back unchanged.
C22_SentencesAtMidpoint == (Optimized /\ LowDensity) => SentencesAtMidpoint

\* C22 for bodies of more than two paragraphs: the only bodies below 1.0%
\* that get no sentence for a missing phrase are those C16 is about.
C22_SentencesAtMidpointOfThree ==
    (Optimized /\ LowDensity /\ Len(Paragraphs(content)) > 2) => SentencesAtMidpoint

(***************************************************************************)
(* The range of the score                                                  *)
(***************************************************************************)
\* C23: the score is at most 90, and at most 80 when the secondary keyword
\* list is empty, so that grade A+ is out of reach without secondary
\* keywords; for a body with at least one word the score is at least 15 and
\* a multiple of 5.
C23_ScoreRange ==
    Scored =>
        /\ report.score <= 90
        /\ secondary_keywords = <<>> =>
               (report.score <= 80 /\ ("grade" \in DOMAIN report => report.grade # "A+"))
        /\ HasWords => (report.score >= 15 /\ report.score % 5 = 0)

\* a body scored without secondary keywords that earns every other point
C23_Witness ==
    /\ Scored
    /\ secondary_keywords = <<>>
    /\ report.score = 80
    /\ report.grade = "A"

\* the ends of the range are met: 15 points, and 90
C23_LowestReached == Scored /\ HasWords /\ report.score = 15
C23_HighestReached == Scored /\ report.score = 90

(***************************************************************************)
(* The optimizer applied twice                                             *)
(***************************************************************************)
Reoptimized == reoptimized # NoValue

\* C24: optimize_keyword_density is idempotent: called on the body it
\* returned it returns that body unchanged, whether or not the first call
\* brought the density to 1.0%.
C24_Idempotent == Reoptimized => reoptimized.content = optimized.content

\* the first call added its sentences and the body is still below 1.0%; the
\* second call has returned
C24_Witness ==
    /\ Reoptimized
    /\ optimized.content # content
    /\ 100 * KeywordUsesAfter < NumWords(optimized.content)
    /\ reoptimized.content = optimized.content

(***************************************************************************)
(* The optimizer inside generate_seo_article                               *)
(***************************************************************************)
\* the sections put together, trimmed
AssembledBody == Strip(AssembleSections(built_sections))

\* C25: inside generate_seo_article the optimizer never alters the assembled
\* body: the benefits section always holds "effective <keyword> strategies",
\* so the article content is the trimmed concatenation of the sections, also
\* when the keyword is in under 1.0% of the assembled body's words.
C25_ContentIsAssembledSections == Optimized => optimized.content = AssembledBody

\* an assembled body below 1.0% came back as it was
C25_Witness ==
    /\ Optimized
    /\ built_sections # NoValue
    /\ 100 * StrCount(Lower(AssembledBody), Lower(Strip(seo_settings.primary_keyword)))
           < NumWords(AssembledBody)
    /\ optimized.content = AssembledBody

(***************************************************************************)
(* What the random source reaches                                          *)
(***************************************************************************)
\* the body from the end of its first paragraph, the hook, onward
AfterHook(s) ==
    LET breaks == Matches(s, <<"\n", "\n">>)
    IN  IF breaks = {} THEN <<>> ELSE SubSeq(s, SetMin(breaks), Len(s))

\* the content of the run on the same source and settings in which the
\* random module starts from state 0
ReferenceContent ==
    optimize_content_for_seo(
        generate_article_sections(source_content,
                                  Strip(Get(seo_settings, "primary_keyword", <<>>)),
                                  Get(seo_settings, "secondary_keywords", <<>>),
                                  Get(seo_settings, "content_type", "blog_post"),
                                  Get(seo_settings, "tone", "professional"),
                                  Get(seo_settings, "content_length", DefaultContentLength),
                                  0),
        Strip(Get(seo_settings, "primary_keyword", <<>>)),
        Get(seo_settings, "secondary_keywords", <<>>))

\* C26: the random source reaches the content only through the hook: on the
\* same source and settings every run's content is, from the end of the hook
\* onward, the content of the run that starts from state 0, so any two
\* runs agree there.
C26_ContentAfterHookFixed ==
    (Optimized /\ built_sections # NoValue) =>
        AfterHook(optimized.content) = AfterHook(ReferenceContent)

\* a run that drew another hook than the run from state 0, and the same
\* content after it
C26_Witness ==
    /\ Optimized
    /\ built_sections # NoValue
    /\ \E ref \in {ReferenceContent} :
           /\ optimized.content # ref
           /\ AfterHook(optimized.content) = AfterHook(ref)
           /\ AfterHook(ref) # <<>>

(***************************************************************************)
(* Properties of the ContentEditor history                                 *)
(***************************************************************************)
\* C27: in every state reached by any sequence of save_content_state,
\* undo_last_change and redo_last_change on an editor session the undo
\* stack holds at most 50 snapshots, although redo_last_change pushes onto
\* it without truncating, and right after every save_content_state the
\* redo stack is empty.
C27_UndoStackBounded ==
    /\ Len(editor_session.undo_stack) <= MaxUndo
    /\ editor_result.call = "save_content_state" => editor_session.redo_stack = <<>>

\* a redo has just pushed the fiftieth snapshot onto the undo stack
C27_Witness ==
    /\ Len(editor_session.undo_stack) = MaxUndo
    /\ editor_result = [call |-> "redo_last_change", result |-> TRUE]

\* the content snapshots of a stack, oldest first
SnapshotContents(stack) == [i \in 1..Len(stack) |-> stack[i].content]

\* the two sessions show the same content and hold the same content
\* snapshots on both stacks
SameHistory(a, b) ==
    /\ a.current_content = b.current_content
    /\ SnapshotContents(a.undo_stack) = SnapshotContents(b.undo_stack)
    /\ SnapshotContents(a.redo_stack) = SnapshotContents(b.redo_stack)

\* C28: from any session with a non-empty undo stack, undo_last_change
\* followed at once by redo_last_change gives back the same current_content
\* and the same content snapshots on the undo and redo stacks; on an empty
\* undo stack undo_last_change, and on an empty redo stack redo_last_change,
\* returns False and leaves the session as it was.
C28_UndoRedoInverse ==
    LET undone == undo_last_change(editor_session)
        redone == redo_last_change(undone.session)
    IN  /\ editor_session.undo_stack # <<>> =>
               /\ undone.result = TRUE
               /\ redone.result = TRUE
               /\ SameHistory(redone.session, editor_session)
        /\ editor_session.undo_stack = <<>> =>
               undone = [session |-> editor_session, result |-> FALSE]
        /\ editor_session.redo_stack = <<>> =>
               redo_last_change(editor_session) =
                   [session |-> editor_session, result |-> FALSE]

\* a redo that followed an undo has returned True, with something to undo
\* and something to redo, the snapshot to undo to differing from what is shown
C28_Witness ==
    /\ editor_result = [call |-> "redo_last_change", result |-> TRUE]
    /\ editor_session.undo_stack # <<>>
    /\ editor_session.redo_stack # <<>>
    /\ editor_session.undo_stack[Len(editor_session.undo_stack)].content
           # editor_session.current_content

(***************************************************************************)
(* Properties of the output editor's session                               *)
(***************************************************************************)
\* the output editor has just been rendered
Rendered == editor_result = [call |-> "render_output_editor_interface"]

\* C29: the output editor works on the most recently generated article:
\* after a render that follows a generation that stored its article, the
\* editor session's current_content derives from that article (it carries
\* its generated_at), and generated_article still holds that generation.
C29_EditorOnLatestArticle ==
    (Rendered /\ ~IsErrorResult) =>
        /\ editor_session.current_content.generated_at = returned.generated_at
        /\ generated_article.generated_at = returned.generated_at

(***************************************************************************)
(* Properties of the login lockout                                         *)
(***************************************************************************)
\* five attempts have failed, the last of them at some time
AttemptsUsedUp ==
    /\ auth_session.login_attempts = MaxLoginAttempts
    /\ auth_session.last_failed_login # NoFailedLogin

\* ... fewer than fifteen minutes ago
LockedOut ==
    /\ AttemptsUsedUp
    /\ clock - fromisoformat(auth_session.last_failed_login) < CooldownMinutes

\* ... fifteen minutes ago or earlier
CooldownExpired ==
    /\ AttemptsUsedUp
    /\ clock - fromisoformat(auth_session.last_failed_login) >= CooldownMinutes

\* what one render of the login page does to the session
LockoutStep ==
    RenderEnhancedLogin =>
        /\ LockedOut =>
               /\ ~login_render'.checked
               /\ auth_session'.authenticated = auth_session.authenticated
        /\ (login_render'.checked /\ ~login_render'.success) =>
               auth_session'.login_attempts =
                   (IF CooldownExpired THEN 0 ELSE auth_session.login_attempts) + 1
        /\ (login_render'.checked /\ login_render'.success) =>
               /\ auth_session'.login_attempts = 0
               /\ auth_session'.authenticated
        /\ (CooldownExpired /\ ~login_render'.checked) =>
               auth_session'.login_attempts = 0

\* C30: login_attempts is never above 5; while it is 5 and fewer than 15
\* minutes have passed since last_failed_login, a render of the login page
\* checks no credentials and cannot set authenticated; each failed check of
\* credentials adds one to login_attempts, and a successful login or an
\* expired cooldown sets it back to 0.
C30_LoginLockout ==
    /\ [](auth_session.login_attempts <= MaxLoginAttempts)
    /\ [][LockoutStep]_vars

\* the login page has just been refused, five attempts having failed
C30_Witness ==
    /\ login_render = LoginRender(TRUE, FALSE, FALSE)
    /\ auth_session.login_attempts = MaxLoginAttempts
    /\ ~auth_session.authenticated

====
